---- MODULE Spec2Model ----
(***************************************************************************)
(* Model of the analytics core of market-seasonality-explorer:             *)
(*   src/src/lib/market-utils.ts  generateMockMarketData, weightedRandom,  *)
(*                                aggregateDataByWeek, aggregateDataByMonth,*)
(*                                getMostFrequentVolatility/Performance     *)
(*   src/src/components/PatternAnalysis.tsx  seasonalPatterns, anomalies    *)
(* and of the application around it: the Home page with FiltersBar and     *)
(* Calendar, ThemeProvider, the Binance client (retry interceptor,         *)
(* BinanceWebSocket) and the exports of src/src/lib/enhanced-export.ts.    *)
(* Dates are day numbers counted from 2024-01-01 (day 0, a Monday); a Date  *)
(* instant is [day, tod] with a coarse time of day.  A 'YYYY-MM-DD' string  *)
(* is the triple <<year, month, date>>.  Math.random() draws are tenths;    *)
(* priceChange is kept in tenths of a percent.                              *)
(***************************************************************************)
EXTENDS Integers, Sequences, FiniteSets, TLC

VARIABLES startDate, endDate, current, data, volatilityWeights, iterations, pc,
          series, year, groups, result, op,
          marketData, patterns, seasonalPatterns, detected, anomalies, render,
          libData, libArg, libResult, libOp,
          view, selectedDate, isPanelOpen, useRealData, instrument, metricType,
          timePeriod, queries, mockData, page, lastHandler, viewBefore,
          theme, colorScheme, isDark, rootClasses, prefersDark, storedTheme,
          storedColorScheme, themeMounted, themeEvent,
          ws, sockets, timers, isConnected, wsError, disconnected, reconnected,
          configRetry, requests, errors, settled, reqPc,
          exportSeries, givenSeries, download, exports

genVars == <<startDate, endDate, current, data, volatilityWeights, iterations, pc>>
aggVars == <<series, year, groups, result, op>>
patVars == <<marketData, patterns, seasonalPatterns, detected, anomalies, render>>
libVars == <<libData, libArg, libResult, libOp>>
homeVars == <<view, selectedDate, isPanelOpen, useRealData, instrument, metricType,
              timePeriod, queries, mockData, page, lastHandler, viewBefore>>
themeVars == <<theme, colorScheme, isDark, rootClasses, prefersDark, storedTheme,
               storedColorScheme, themeMounted, themeEvent>>
wsVars == <<ws, sockets, timers, isConnected, wsError, disconnected, reconnected>>
apiVars == <<configRetry, requests, errors, settled, reqPc>>
exportVars == <<exportSeries, givenSeries, download, exports>>
appVars == <<libVars, homeVars, themeVars, wsVars, apiVars, exportVars>>
vars == <<genVars, aggVars, patVars, appVars>>

(***************************************************************************)
(* Bounds of the model.                                                    *)
(***************************************************************************)
\* start dates are drawn from FirstDay .. FirstDay + NumDays - 1
\* (2025-02-03 .. 2025-07-02: months of 28, 31, 30, 31, 30 days, two of them
\* earnings months)
FirstDay == 399
NumDays == 150
\* the end date lies at most MaxSpan days after the start date
MaxSpan == 1
\* loop iterations of generateMockMarketData that are followed
MaxIterations == 2
\* longest input series handed to the aggregators
MaxLen == 3
\* the series handed to PatternAnalysis have one point less than a threshold
\* of the detectors up to MaxExtra points more
MaxExtra == 2

(***************************************************************************)
(* Calendar: what dayjs computes for a local date.                         *)
(***************************************************************************)
\* days from 1970-01-01 to 2024-01-01, the model's day 0
EpochShift == 54 * 365 + 13

\* civil date <<y, m, d>> of a day number (proleptic Gregorian calendar)
CivilFromDays(n) ==
  LET z   == n + EpochShift + 719468
      era == z \div 146097
      doe == z - era * 146097
      yoe == (doe - doe \div 1460 + doe \div 36524 - doe \div 146096) \div 365
      doy == doe - (365 * yoe + yoe \div 4 - yoe \div 100)
      mp  == (5 * doy + 2) \div 153
      d   == doy - (153 * mp + 2) \div 5 + 1
      m   == IF mp < 10 THEN mp + 3 ELSE mp - 9
      y   == yoe + era * 400 + (IF m <= 2 THEN 1 ELSE 0)
  IN  <<y, m, d>>

\* day number of the civil date <<y, m, d>>
DaysFromCivil(ymd) ==
  LET y   == IF ymd[2] <= 2 THEN ymd[1] - 1 ELSE ymd[1]
      era == y \div 400
      yoe == y - era * 400
      mp  == IF ymd[2] > 2 THEN ymd[2] - 3 ELSE ymd[2] + 9
      doy == (153 * mp + 2) \div 5 + ymd[3] - 1
      doe == yoe * 365 + yoe \div 4 - yoe \div 100 + doy
  IN  era * 146097 + doe - 719468 - EpochShift

\* dayjs().year()
YearOf(n) == CivilFromDays(n)[1]
\* dayjs().month(), 0-based as in dayjs
MonthOf(n) == CivilFromDays(n)[2] - 1
\* dayjs().date()
DateOf(n) == CivilFromDays(n)[3]
\* dayjs().day(): 0 = Sunday .. 6 = Saturday
DayOf(n) == (n + 1) % 7
\* dayjs().format('YYYY-MM-DD')
Format(n) == CivilFromDays(n)
\* dayjs('YYYY-MM-DD'): the local midnight of that date
Parse(s) == DaysFromCivil(s)

\* number of days of the month that day n lies in
DaysInMonth(n) ==
  LET c == CivilFromDays(n)
      first == DaysFromCivil(<<c[1], c[2], 1>>)
      next  == IF c[2] = 12 THEN DaysFromCivil(<<c[1] + 1, 1, 1>>)
                            ELSE DaysFromCivil(<<c[1], c[2] + 1, 1>>)
  IN  next - first

\* dayjs(a).isBefore(b): instants compared
IsBefore(a, b) == a.day < b.day \/ (a.day = b.day /\ a.tod < b.tod)
\* dayjs(a).isSame(b, 'day'): same calendar day
IsSameDay(a, b) == a.day = b.day
\* dayjs(a).add(k, 'day'): a NEW instant; the receiver is not changed
Add(a, k) == [day |-> a.day + k, tod |-> a.tod]

(***************************************************************************)
(* generateMockMarketData                                                  *)
(***************************************************************************)
\* values of Math.random() that are followed, in tenths
RandomSamples == {1, 4, 7, 9}
\* the draw used for the numeric fields (volume, priceChange, liquidity)
NumericSamples == {5}

VolatilityLevels == <<"low", "medium", "high">>
Performances == <<"positive", "negative", "neutral">>
\* weights in tenths
BaselineWeights == <<5, 3, 2>>
ElevatedWeights == <<2, 4, 4>>

SumSeq(s) == LET F[i \in 0..Len(s)] == IF i = 0 THEN 0 ELSE F[i - 1] + s[i]
             IN  F[Len(s)]

\* weightedRandom(items, weights) with Math.random() = r/10
WeightedRandom(items, weights, r) ==
  LET totalWeight == SumSeq(weights)
      \* random after subtracting weights[1..i], in hundredths
      After(i) == r * totalWeight - 10 * SumSeq(SubSeq(weights, 1, i))
      hits == {i \in 1..Len(items) : After(i) <= 0}
  IN  IF hits # {} THEN items[CHOOSE i \in hits : \A j \in hits : i <= j]
      ELSE items[Len(items)]

IsWeekend(n) == DayOf(n) = 0 \/ DayOf(n) = 6
\* a month-end test that starts one day late
IsMonthEndAfter26(n) == DateOf(n) > 26

IsMonthEnd(n) == DateOf(n) > 25
IsEarningsSeason(n) == (MonthOf(n) + 1) \in {1, 4, 7, 10}

WeightsFor(n) ==
  IF IsMonthEnd(n) \/ IsEarningsSeason(n) THEN ElevatedWeights ELSE BaselineWeights

\* a loop written `while (!current.isSame(end, 'day'))`
LoopConditionNotEnd == ~IsSameDay(current, endDate)

\* the loop condition of line 12
LoopCondition == IsBefore(current, endDate) \/ IsSameDay(current, endDate)

\* the cursor after `current.add(1, 'day')`: the new instant is discarded
CursorAfterAdd(c) == LET discarded == Add(c, 1) IN c

TimesOfDay == {0, 1}
Spans == -1 .. MaxSpan

GenIdle ==
  /\ startDate = [day |-> 0, tod |-> 0]
  /\ endDate = [day |-> 0, tod |-> 0]
  /\ current = [day |-> 0, tod |-> 0]
  /\ data = <<>>
  /\ volatilityWeights = BaselineWeights
  /\ iterations = 0
  /\ pc = "idle"

AggIdle ==
  /\ series = <<>>
  /\ year = 2024
  /\ groups = <<>>
  /\ result = <<>>
  /\ op = "idle"

PatIdle ==
  /\ marketData = <<>>
  /\ patterns = <<>>
  /\ seasonalPatterns = <<>>
  /\ detected = <<>>
  /\ anomalies = <<>>
  /\ render = "idle"

LibIdle ==
  /\ libData = <<>>
  /\ libArg = 0
  /\ libResult = 0
  /\ libOp = "idle"

\* the value JavaScript calls undefined, and the one it calls null
Undefined == [kind |-> "undefined"]
Null == [kind |-> "null"]

\* a react-query cache entry nobody has asked for yet
FreshQuery == [data |-> Undefined, error |-> Null, fetching |-> FALSE]

HomeIdle ==
  /\ view = "daily"
  /\ selectedDate = "today"
  /\ isPanelOpen = FALSE
  /\ useRealData = TRUE
  /\ instrument = "BTCUSDT"
  /\ metricType = "combined"
  /\ timePeriod = "6M"
  /\ queries = [s \in {"BTCUSDT", "ETHUSDT"} |-> FreshQuery]
  /\ mockData = <<>>
  /\ page = "unmounted"
  /\ lastHandler = "none"
  /\ viewBefore = "daily"

ThemeIdle ==
  /\ theme = "system"
  /\ colorScheme = "default"
  /\ isDark = FALSE
  /\ rootClasses = {}
  /\ prefersDark = FALSE
  /\ storedTheme = Null
  /\ storedColorScheme = Null
  /\ themeMounted = FALSE
  /\ themeEvent = "none"

WsIdle ==
  /\ ws = 0
  /\ sockets = <<>>
  /\ timers = 0
  /\ isConnected = FALSE
  /\ wsError = Null
  /\ disconnected = FALSE
  /\ reconnected = FALSE

ApiIdle ==
  /\ configRetry = 0
  /\ requests = 0
  /\ errors = <<>>
  /\ settled = Null
  /\ reqPc = "idle"

ExportIdle ==
  /\ exportSeries = <<>>
  /\ givenSeries = <<>>
  /\ download = Null
  /\ exports = 0

\* every part of the application other than the one named is at rest
OthersIdle(own) ==
  /\ IF own = "lib" THEN TRUE ELSE LibIdle
  /\ IF own = "home" THEN TRUE ELSE HomeIdle
  /\ IF own = "theme" THEN TRUE ELSE ThemeIdle
  /\ IF own = "ws" THEN TRUE ELSE WsIdle
  /\ IF own = "api" THEN TRUE ELSE ApiIdle
  /\ IF own = "export" THEN TRUE ELSE ExportIdle

\* ... and stays as it is
OthersUnchanged(own) ==
  /\ IF own = "lib" THEN TRUE ELSE UNCHANGED libVars
  /\ IF own = "home" THEN TRUE ELSE UNCHANGED homeVars
  /\ IF own = "theme" THEN TRUE ELSE UNCHANGED themeVars
  /\ IF own = "ws" THEN TRUE ELSE UNCHANGED wsVars
  /\ IF own = "api" THEN TRUE ELSE UNCHANGED apiVars
  /\ IF own = "export" THEN TRUE ELSE UNCHANGED exportVars

Init ==
  /\ \E d \in FirstDay .. FirstDay + NumDays - 1, s \in Spans, ts \in TimesOfDay, te \in TimesOfDay :
        \* both instants late in the day behave as both at midnight
        /\ ~(ts = 1 /\ te = 1)
        /\ startDate = [day |-> d, tod |-> ts]
        /\ endDate = [day |-> d + s, tod |-> te]
  /\ current = startDate
  /\ data = <<>>
  /\ volatilityWeights = BaselineWeights
  /\ iterations = 0
  /\ pc = "while"
  /\ AggIdle
  /\ PatIdle
  /\ OthersIdle("none")

\* one pass through the body of the while loop (lines 12-45)
LoopBody ==
  /\ pc = "while"
  /\ LoopCondition
  /\ iterations < MaxIterations
  /\ iterations' = iterations + 1
  /\ IF ~IsWeekend(current.day)
     THEN \E rv \in RandomSamples, rp \in RandomSamples,
             rvol \in NumericSamples, rpc \in NumericSamples, rl \in NumericSamples :
            /\ volatilityWeights' = WeightsFor(current.day)
            /\ data' = Append(data,
                 [date |-> Format(current.day),
                  volatilityLevel |-> WeightedRandom(VolatilityLevels, volatilityWeights', rv),
                  volume |-> (rvol * 1000000) \div 10 + 100000,
                  performance |-> Performances[(rp * Len(Performances)) \div 10 + 1],
                  priceChange |-> 10 * (rpc - 5),
                  liquidity |-> (rl * 100) \div 10 + 1])
     ELSE UNCHANGED <<data, volatilityWeights>>
  /\ current' = CursorAfterAdd(current)
  /\ UNCHANGED <<startDate, endDate, pc, aggVars, patVars>>
  /\ OthersUnchanged("none")

\* the loop condition is false: return data (line 47)
Return ==
  /\ pc = "while"
  /\ ~LoopCondition
  /\ pc' = "returned"
  /\ UNCHANGED <<startDate, endDate, current, data, volatilityWeights, iterations,
                 aggVars, patVars>>
  /\ OthersUnchanged("none")

Next == LoopBody \/ Return

Spec == Init /\ [][Next]_vars

(***************************************************************************)
(* Claims about generateMockMarketData (specification Spec).               *)
(***************************************************************************)
\* calendar days of the requested range
CalendarDaysInRange ==
  IF endDate.day >= startDate.day THEN endDate.day - startDate.day + 1 ELSE 0

\* the weekdays of the requested range, as date strings
WeekdaysInRange ==
  {Format(n) : n \in {k \in startDate.day .. endDate.day : ~IsWeekend(k)}}

DatesOf(s) == {s[i].date : i \in 1 .. Len(s)}

\* C1: the loop runs at most once per calendar day of the range, each pass
\* moving the cursor one day on, so the call returns.
C1_LoopBoundedByRange ==
  /\ iterations <= CalendarDaysInRange
  /\ current.day = startDate.day + iterations

\* C2: for start <= end the records are exactly the Monday-to-Friday days of
\* the range, none on a weekend, none twice, in strictly ascending date order.
C2_OneRecordPerWeekday ==
  ~IsBefore(endDate, startDate) =>
    /\ \A i \in 1 .. Len(data) : data[i].date \in WeekdaysInRange
    /\ \A i \in 1 .. Len(data) - 1 : Parse(data[i].date) < Parse(data[i + 1].date)
    /\ Len(data) <= CalendarDaysInRange
    /\ pc = "returned" => DatesOf(data) = WeekdaysInRange

\* C3: with start = end the result is one record of that day on a weekday and
\* no record on a Saturday or Sunday.
C3_SameStartAndEnd ==
  startDate = endDate =>
    /\ Len(data) <= 1
    /\ \A i \in 1 .. Len(data) : data[i].date = Format(startDate.day)
    /\ IsWeekend(startDate.day) => data = <<>>
    /\ pc = "returned" => (Len(data) = 1 <=> ~IsWeekend(startDate.day))

\* C4 as stated: whenever the start instant is after the end instant, also on
\* the same calendar day, the loop body never runs and the result is empty.
C4_StartInstantAfterEnd ==
  IsBefore(endDate, startDate) => (data = <<>> /\ iterations = 0)

\* C4 amended: when the start's calendar day is after the end's calendar day
\* the loop body never runs, the call returns, and the result is empty.
C4_StartDayAfterEndDay ==
  startDate.day > endDate.day =>
    /\ data = <<>>
    /\ iterations = 0
    /\ pc = "while" => ~LoopCondition

C4_Witness ==
  startDate.day > endDate.day /\ pc = "returned" /\ data = <<>>

\* the last five days of the month of day n
InLastFiveDays(n) == DateOf(n) > DaysInMonth(n) - 5

\* C5 as stated: the weights used for a generated day are the elevated ones
\* exactly when the day is one of the last five of its month or its month is
\* January, April, July or October.
C5_LastFiveDaysOrQuarterMonth ==
  Len(data) > 0 =>
    LET n == Parse(data[Len(data)].date)
    IN  volatilityWeights =
          IF InLastFiveDays(n) \/ data[Len(data)].date[2] \in {1, 4, 7, 10}
          THEN <<2, 4, 4>> ELSE <<5, 3, 2>>

\* C5 amended: the weights used for a generated day are the elevated ones
\* exactly when its day of month is 26 or later or its month is January,
\* April, July or October; otherwise they are the baseline ones.
C5_After25thOrQuarterMonth ==
  Len(data) > 0 =>
    LET s == data[Len(data)].date
    IN  volatilityWeights =
          IF s[3] >= 26 \/ s[2] \in {1, 4, 7, 10} THEN <<2, 4, 4>> ELSE <<5, 3, 2>>

\* a record of the 26th of a 31-day month outside the earnings months, and
\* one of the 24th of a 28-day month
C5_Witness ==
  /\ Len(data) > 0
  /\ LET s == data[Len(data)].date
     IN  \/ s[3] = 26 /\ s[2] = 3 /\ volatilityWeights = <<2, 4, 4>>
         \/ s[3] = 24 /\ s[2] = 2 /\ volatilityWeights = <<5, 3, 2>>

(***************************************************************************)
(* aggregateDataByWeek, aggregateDataByMonth                               *)
(***************************************************************************)
\* dayjs().startOf('week'): the Sunday of the week (locale en)
StartOfWeek(n) == n - DayOf(n)
\* dayjs().startOf('year')
StartOfYear(n) == DaysFromCivil(<<YearOf(n), 1, 1>>)

\* dayjs().week() of the weekOfYear plugin, locale en (yearStart = 1): the
\* week that holds January 1st is week 1, also for the last days of December
Week(n) ==
  IF /\ MonthOf(n) = 11
     /\ DateOf(n) > 25
     /\ DaysFromCivil(<<YearOf(n) + 1, 1, 1>>) <= StartOfWeek(n) + 6
  THEN 1
  ELSE (n - StartOfWeek(StartOfYear(n))) \div 7 + 1

\* a key that is kept although the item is of another year
InYearAlways(n, y) == TRUE

\* line 67 / line 100: the item is kept when its year is the target year
InYear(n, y) == YearOf(n) = y

\* `${year}-W${date.week()}`
WeekKey(n, y) == <<y, "W", Week(n)>>
\* `${year}-${String(date.month() + 1).padStart(2, '0')}`
MonthKey(n, y) == <<y, "M", MonthOf(n) + 1>>

\* groups[key].push(item), creating the group at the end of the object's
\* keys when the key is new (keys iterate in insertion order)
PushToGroup(gs, key, item) ==
  IF \E i \in 1 .. Len(gs) : gs[i].key = key
  THEN LET i == CHOOSE j \in 1 .. Len(gs) : gs[j].key = key
       IN  [gs EXCEPT ![i].items = Append(@, item)]
  ELSE Append(gs, [key |-> key, items |-> <<item>>])

\* the reduce of lines 65-75
WeekGroups(d, y) ==
  LET F[i \in 0 .. Len(d)] ==
        IF i = 0 THEN <<>>
        ELSE IF ~InYear(Parse(d[i].date), y) THEN F[i - 1]
        ELSE PushToGroup(F[i - 1], WeekKey(Parse(d[i].date), y), d[i])
  IN  F[Len(d)]

\* the reduce of lines 98-108
MonthGroups(d, y) ==
  LET F[i \in 0 .. Len(d)] ==
        IF i = 0 THEN <<>>
        ELSE IF ~InYear(Parse(d[i].date), y) THEN F[i - 1]
        ELSE PushToGroup(F[i - 1], MonthKey(Parse(d[i].date), y), d[i])
  IN  F[Len(d)]

\* the distinct values of a sequence in the order of their first appearance:
\* the keys of the counts object
KeysInInsertionOrder(vals) ==
  LET F[i \in 0 .. Len(vals)] ==
        IF i = 0 THEN <<>>
        ELSE IF \E j \in 1 .. Len(F[i - 1]) : F[i - 1][j] = vals[i] THEN F[i - 1]
        ELSE Append(F[i - 1], vals[i])
  IN  F[Len(vals)]

CountOf(vals, v) == Cardinality({i \in 1 .. Len(vals) : vals[i] = v})

\* a reduce that keeps the accumulator on a tie
KeepOnTie(vals, a, b) == IF CountOf(vals, a) >= CountOf(vals, b) THEN a ELSE b
\* a reduce with the comparison turned round
KeepSmaller(vals, a, b) == IF CountOf(vals, a) < CountOf(vals, b) THEN a ELSE b

\* (a, b) => counts[a[0]] > counts[b[0]] ? a : b
ReduceStep(vals, a, b) == IF CountOf(vals, a) > CountOf(vals, b) THEN a ELSE b

\* Object.entries(counts).reduce(...)[0], for a non-empty vals
MostFrequent(vals) ==
  LET keys == KeysInInsertionOrder(vals)
      F[i \in 1 .. Len(keys)] ==
        IF i = 1 THEN keys[1] ELSE ReduceStep(vals, F[i - 1], keys[i])
  IN  F[Len(keys)]

getMostFrequentVolatility(items) ==
  MostFrequent([i \in 1 .. Len(items) |-> items[i].volatilityLevel])
getMostFrequentPerformance(items) ==
  MostFrequent([i \in 1 .. Len(items) |-> items[i].performance])

MinOf(S) == CHOOSE x \in S : \A z \in S : x <= z
MaxOf(S) == CHOOSE x \in S : \A z \in S : x >= z

RECURSIVE Gcd(_, _)
Gcd(a, b) == IF b = 0 THEN a ELSE Gcd(b, a % b)
Abs(x) == IF x < 0 THEN -x ELSE x
\* a division that drops the fractional part
QuotientTruncated(a, b) == [num |-> a \div b, den |-> 1]

\* the quotient a / b of a division, as a fraction in lowest terms
Quotient(a, b) ==
  LET g == Gcd(Abs(a), b)
  IN  IF a = 0 THEN [num |-> 0, den |-> 1] ELSE [num |-> a \div g, den |-> b \div g]

\* the object built in lines 77-94 / 110-127 for one group
Period(g) ==
  LET timestamps == {Parse(g.items[i].date) : i \in 1 .. Len(g.items)}
  IN  [period |-> g.key,
       startDate |-> MinOf(timestamps),
       endDate |-> MaxOf(timestamps),
       avgVolatility |-> getMostFrequentVolatility(g.items),
       totalVolume |-> SumSeq([i \in 1 .. Len(g.items) |-> g.items[i].volume]),
       avgPerformance |-> getMostFrequentPerformance(g.items),
       avgPriceChange |->
         Quotient(SumSeq([i \in 1 .. Len(g.items) |-> g.items[i].priceChange]),
                  Len(g.items)),
       avgLiquidity |->
         Quotient(SumSeq([i \in 1 .. Len(g.items) |-> g.items[i].liquidity]),
                  Len(g.items))]

\* the dates of the series handed to the aggregators
SeriesDates ==
  {<<2024, 1, 1>>, <<2024, 1, 2>>, <<2024, 1, 8>>, <<2024, 1, 15>>, <<2024, 2, 5>>,
   <<2024, 12, 20>>, <<2024, 12, 30>>, <<2025, 1, 2>>}

\* the descriptors of a point: those of market-utils.test.ts and one neutral day
Profiles ==
  {[volatilityLevel |-> "low", volume |-> 1000, performance |-> "positive",
    priceChange |-> 25, liquidity |-> 80],
   [volatilityLevel |-> "high", volume |-> 1500, performance |-> "negative",
    priceChange |-> -15, liquidity |-> 70],
   [volatilityLevel |-> "medium", volume |-> 1200, performance |-> "positive",
    priceChange |-> 10, liquidity |-> 75],
   [volatilityLevel |-> "high", volume |-> 2000, performance |-> "neutral",
    priceChange |-> 0, liquidity |-> 50]}

MarketDataPoint(s, p) ==
  [date |-> s, volatilityLevel |-> p.volatilityLevel, volume |-> p.volume,
   performance |-> p.performance, priceChange |-> p.priceChange,
   liquidity |-> p.liquidity]

\* the dates of D in ascending order
RECURSIVE Ascending(_)
Ascending(D) ==
  IF D = {} THEN <<>>
  ELSE LET first == CHOOSE s \in D : \A z \in D : Parse(s) <= Parse(z)
       IN  <<first>> \o Ascending(D \ {first})

TargetYears == {2024, 2025}

InitAgg ==
  /\ \E D \in SUBSET SeriesDates :
       /\ Cardinality(D) <= MaxLen
       /\ \E f \in [D -> Profiles] :
            series = [i \in 1 .. Cardinality(D) |->
                        MarketDataPoint(Ascending(D)[i], f[Ascending(D)[i]])]
  /\ year \in TargetYears
  /\ groups = <<>>
  /\ result = <<>>
  /\ op = "idle"
  /\ GenIdle
  /\ PatIdle
  /\ OthersIdle("none")

aggregateDataByWeek ==
  /\ op = "idle"
  /\ groups' = WeekGroups(series, year)
  /\ result' = [i \in 1 .. Len(groups') |-> Period(groups'[i])]
  /\ op' = "week"
  /\ UNCHANGED <<series, year, genVars, patVars>>
  /\ OthersUnchanged("none")

aggregateDataByMonth ==
  /\ op = "idle"
  /\ groups' = MonthGroups(series, year)
  /\ result' = [i \in 1 .. Len(groups') |-> Period(groups'[i])]
  /\ op' = "month"
  /\ UNCHANGED <<series, year, genVars, patVars>>
  /\ OthersUnchanged("none")

NextAgg == aggregateDataByWeek \/ aggregateDataByMonth

SpecAgg == InitAgg /\ [][NextAgg]_vars

(***************************************************************************)
(* Claims about the aggregators (specification SpecAgg).                   *)
(***************************************************************************)
\* the points of the series dated in the target year, by their date string
PointsOfYear == {i \in 1 .. Len(series) : series[i].date[1] = year}

ItemsOf(i) == {groups[i].items[k] : k \in 1 .. Len(groups[i].items)}

\* C6: the totalVolume of the month periods adds up to the volume of the
\* points of the series that are dated in the target year.
C6_MonthVolumeConserved ==
  op = "month" =>
    SumSeq([i \in 1 .. Len(result) |-> result[i].totalVolume])
      = SumSeq([i \in 1 .. Len(series) |->
                  IF i \in PointsOfYear THEN series[i].volume ELSE 0])

C6_Witness ==
  /\ op = "month"
  /\ \E i \in 1 .. Len(series) : i \notin PointsOfYear
  /\ \E i \in 1 .. Len(groups) : Len(groups[i].items) >= 2

\* C7: the points behind a period are exactly the points of the target year
\* dated within [startDate, endDate] of the period, there is at least one,
\* and the points of a week period all lie in one calendar week.
C7_PeriodHoldsItsDateRange ==
  op # "idle" =>
    \A i \in 1 .. Len(result) :
      /\ Len(groups[i].items) >= 1
      /\ ItemsOf(i) = {series[k] : k \in {j \in PointsOfYear :
                         /\ result[i].startDate <= Parse(series[j].date)
                         /\ Parse(series[j].date) <= result[i].endDate}}
      /\ op = "week" => result[i].endDate - result[i].startDate <= 6

\* the unit index of a point: its week number, or its month 1-12
UnitIndex(s) == IF op = "week" THEN Week(Parse(s)) ELSE s[2]

\* C8: one period per unit index that has a point in the target year, in
\* ascending order of the unit index.
C8_OnePeriodPerUnitAscending ==
  op # "idle" =>
    /\ {result[i].period[3] : i \in 1 .. Len(result)}
         = {UnitIndex(series[k].date) : k \in PointsOfYear}
    /\ \A i \in 1 .. Len(result) - 1 : result[i].period[3] < result[i + 1].period[3]

\* the values of vals that occur most often
Modes(vals) ==
  {vals[i] : i \in {j \in 1 .. Len(vals) :
                      \A k \in 1 .. Len(vals) : CountOf(vals, vals[k]) <= CountOf(vals, vals[j])}}
FirstIndex(vals, v) == MinOf({i \in 1 .. Len(vals) : vals[i] = v})
EarliestMode(vals) ==
  CHOOSE v \in Modes(vals) : \A w \in Modes(vals) : FirstIndex(vals, v) <= FirstIndex(vals, w)
LatestMode(vals) ==
  CHOOSE v \in Modes(vals) : \A w \in Modes(vals) : FirstIndex(vals, v) >= FirstIndex(vals, w)

VolatilitiesOf(i) == [k \in 1 .. Len(groups[i].items) |-> groups[i].items[k].volatilityLevel]
PerformancesOf(i) == [k \in 1 .. Len(groups[i].items) |-> groups[i].items[k].performance]

\* C9 as stated: among the values tied for the highest count, the dominant
\* value is the one that appears earliest among the bucket's points.
C9_EarliestTiedValueWins ==
  op # "idle" =>
    \A i \in 1 .. Len(result) :
      /\ result[i].avgVolatility = EarliestMode(VolatilitiesOf(i))
      /\ result[i].avgPerformance = EarliestMode(PerformancesOf(i))

\* C9 amended: among the values tied for the highest count, the dominant
\* value is the one whose first appearance among the bucket's points is the
\* latest.
C9_LatestTiedValueWins ==
  op # "idle" =>
    \A i \in 1 .. Len(result) :
      /\ result[i].avgVolatility = LatestMode(VolatilitiesOf(i))
      /\ result[i].avgPerformance = LatestMode(PerformancesOf(i))

C9_Witness ==
  /\ op # "idle"
  /\ \E i \in 1 .. Len(result) :
       /\ Cardinality(Modes(VolatilitiesOf(i))) >= 2
       /\ Cardinality(Modes(PerformancesOf(i))) >= 2
       /\ result[i].avgVolatility # VolatilitiesOf(i)[1]
       /\ result[i].avgPerformance # PerformancesOf(i)[1]

\* C10: the dominant volatility and performance of a period occur in its
\* bucket, no value of the bucket occurs more often, and they are one of
\* low/medium/high and positive/negative/neutral.
C10_DominantIsAMode ==
  op # "idle" =>
    \A i \in 1 .. Len(result) :
      /\ result[i].avgVolatility \in {"low", "medium", "high"}
      /\ result[i].avgPerformance \in {"positive", "negative", "neutral"}
      /\ CountOf(VolatilitiesOf(i), result[i].avgVolatility) >= 1
      /\ CountOf(PerformancesOf(i), result[i].avgPerformance) >= 1
      /\ \A k \in 1 .. Len(groups[i].items) :
           /\ CountOf(VolatilitiesOf(i), VolatilitiesOf(i)[k])
                <= CountOf(VolatilitiesOf(i), result[i].avgVolatility)
           /\ CountOf(PerformancesOf(i), PerformancesOf(i)[k])
                <= CountOf(PerformancesOf(i), result[i].avgPerformance)

\* a bucket of three points whose dominant values occur twice, the dominant
\* volatility not being that of the first point
C10_Witness ==
  /\ op # "idle"
  /\ \E i \in 1 .. Len(result) :
       /\ Len(groups[i].items) = 3
       /\ CountOf(VolatilitiesOf(i), result[i].avgVolatility) = 2
       /\ CountOf(PerformancesOf(i), result[i].avgPerformance) = 2
       /\ VolatilitiesOf(i)[1] # result[i].avgVolatility

\* C11: for a period of n points, totalVolume is the sum of their volumes,
\* avgPriceChange * n the sum of their priceChange values and
\* avgLiquidity * n the sum of their liquidity values; the two points of
\* 2024-01-01 (1000, 2.5 %, 80) and 2024-01-02 (1500, -1.5 %, 70) give a first
\* 2024 week period of totalVolume 2500, mean change 0.5 % and liquidity 75.
C11_TotalsAndMeans ==
  op # "idle" =>
    /\ \A i \in 1 .. Len(result) :
         LET items == groups[i].items
             n == Len(items)
         IN  /\ result[i].totalVolume = SumSeq([k \in 1 .. n |-> items[k].volume])
             /\ result[i].avgPriceChange.num * n
                  = result[i].avgPriceChange.den * SumSeq([k \in 1 .. n |-> items[k].priceChange])
             /\ result[i].avgLiquidity.num * n
                  = result[i].avgLiquidity.den * SumSeq([k \in 1 .. n |-> items[k].liquidity])
             /\ result[i].avgPriceChange.den > 0
             /\ result[i].avgLiquidity.den > 0
    /\ ( /\ op = "week"
         /\ year = 2024
         /\ Len(series) >= 2
         /\ series[1] = [date |-> <<2024, 1, 1>>, volatilityLevel |-> "low", volume |-> 1000,
                         performance |-> "positive", priceChange |-> 25, liquidity |-> 80]
         /\ series[2] = [date |-> <<2024, 1, 2>>, volatilityLevel |-> "high", volume |-> 1500,
                         performance |-> "negative", priceChange |-> -15, liquidity |-> 70]
         /\ \A k \in 3 .. Len(series) : Week(Parse(series[k].date)) # 1 )
       => /\ result[1].totalVolume = 2500
          /\ result[1].avgPriceChange = [num |-> 5, den |-> 1]
          /\ result[1].avgLiquidity = [num |-> 75, den |-> 1]

\* the scenario of the test, with a third point in another week, and a
\* period whose mean change is not a whole number of tenths
C11_Witness ==
  /\ op = "week"
  /\ year = 2024
  /\ Len(series) = 3
  /\ series[1].date = <<2024, 1, 1>> /\ series[1].volume = 1000
  /\ series[2].date = <<2024, 1, 2>> /\ series[2].volume = 1500
  /\ Len(result) = 2
  /\ result[1].totalVolume = 2500
  /\ result[1].avgLiquidity = [num |-> 75, den |-> 1]

\* C12: with no point dated in the target year the aggregators return the
\* empty sequence, and a point of another year is in no bucket.
C12_OtherYearsYieldNothing ==
  op # "idle" =>
    /\ PointsOfYear = {} => result = <<>>
    /\ \A i \in 1 .. Len(groups) : \A k \in 1 .. Len(groups[i].items) :
         groups[i].items[k].date[1] = year
    /\ Len(result) = Len(groups)

C12_Witness ==
  /\ op # "idle"
  /\ Len(series) >= 2
  /\ PointsOfYear = {}
  /\ result = <<>>

(***************************************************************************)
(* PatternAnalysis: seasonalPatterns (lines 33-116)                        *)
(***************************************************************************)
\* `if (marketData.length < 30) return []`
MinPatternPoints == 30
\* `if (marketData.length < 10) return []`
MinAnomalyPoints == 10
\* `.slice(0, 6)` and `.slice(0, 10)`
MaxPatterns == 6
MaxAnomalies == 10

\* a threshold test that lets a series one point short through
TooFewPointsOffByOne(d, least) == Len(d) < least - 1

\* `marketData.length < 30`, `marketData.length < 10`
TooFewPoints(d, least) == Len(d) < least

\* a strength left as computed
Uncapped(x) == x

\* a comparison a > b of two fractions with positive denominators
Greater(a, b) == a.num * b.den > b.num * a.den
\* Math.min(100, x)
Min100(x) == IF Greater(x, [num |-> 100, den |-> 1]) THEN [num |-> 100, den |-> 1] ELSE x

\* a key is listed before the string keys, in ascending order, when it is
\* the canonical text of a non-negative integer: '10', '11', '12' of the
\* 'MM' months are, '01' .. '09' are not; the weekday keys 0 .. 6 all are
IsIndexKey(kind, k) == IF kind = "month" THEN k >= 10 ELSE TRUE

\* Object.entries(obj): integer keys ascending, then the others as inserted
RECURSIVE SortedByKey(_)
SortedByKey(gs) ==
  IF gs = <<>> THEN <<>>
  ELSE LET i == CHOOSE j \in 1 .. Len(gs) : \A k \in 1 .. Len(gs) : gs[j].key <= gs[k].key
       IN  <<gs[i]>> \o SortedByKey(SubSeq(gs, 1, i - 1) \o SubSeq(gs, i + 1, Len(gs)))

Entries(kind, gs) ==
  SortedByKey(SelectSeq(gs, LAMBDA g : IsIndexKey(kind, g.key)))
    \o SelectSeq(gs, LAMBDA g : ~IsIndexKey(kind, g.key))

\* the reduce of lines 39-44: groups by dayjs(data.date).format('MM')
monthlyData(d) ==
  LET F[i \in 0 .. Len(d)] ==
        IF i = 0 THEN <<>>
        ELSE PushToGroup(F[i - 1], MonthOf(Parse(d[i].date)) + 1, d[i])
  IN  F[Len(d)]

\* the reduce of lines 75-80: groups by dayjs(data.date).day()
weeklyData(d) ==
  LET F[i \in 0 .. Len(d)] ==
        IF i = 0 THEN <<>>
        ELSE PushToGroup(F[i - 1], DayOf(Parse(d[i].date)), d[i])
  IN  F[Len(d)]

\* `Month ${month}` with month = dayjs(date).format('MM')
MonthLabel(m) ==
  <<"Month 01", "Month 02", "Month 03", "Month 04", "Month 05", "Month 06",
    "Month 07", "Month 08", "Month 09", "Month 10", "Month 11", "Month 12">>[m]

dayNames == <<"Sunday", "Monday", "Tuesday", "Wednesday", "Thursday", "Friday", "Saturday">>

SumChange(items) == SumSeq([i \in 1 .. Len(items) |-> items[i].priceChange])
SumVolume(items) == SumSeq([i \in 1 .. Len(items) |-> items[i].volume])

\* a group-size test that lets groups of two points through
GroupTooSmallBelow2(items) == Len(items) < 2

\* `if (data.length < 3) return`
GroupTooSmall(items) == Len(items) < 3

\* a mean test that also accepts a mean exactly at the limit
AbsMeanReaches(items, limit) == Abs(SumChange(items)) >= limit * Len(items)

\* Math.abs(avgChange) > limit, avgChange in percent, limit in tenths of a percent
AbsMeanExceeds(items, limit) == Abs(SumChange(items)) > limit * Len(items)

\* Math.min(100, Math.abs(avgChange) * factor)
ChangeStrength(items, factor) ==
  Min100(Quotient(Abs(SumChange(items)) * factor, 10 * Len(items)))

\* the patterns pushed for one month group (lines 47-71)
MonthPatterns(g) ==
  LET items == g.items
      volatilityCount == Cardinality({i \in 1 .. Len(items) : items[i].volatilityLevel = "high"})
  IN  IF GroupTooSmall(items) THEN <<>>
      ELSE (IF AbsMeanExceeds(items, 20)
            THEN <<[type |-> IF SumChange(items) > 0 THEN "bullish" ELSE "bearish",
                    period |-> MonthLabel(g.key),
                    strength |-> ChangeStrength(items, 20),
                    frequency |-> Len(items)]>>
            ELSE <<>>)
        \o (IF 10 * volatilityCount > 6 * Len(items)
            THEN <<[type |-> "volatile",
                    period |-> MonthLabel(g.key),
                    strength |-> Quotient(volatilityCount * 100, Len(items)),
                    frequency |-> Len(items)]>>
            ELSE <<>>)

\* volumeRatio > 1.3 for avgVolume = gs / gn and overallAvgVolume = s / n;
\* with s = 0 the ratio is NaN and the test is false
VolumeRatioExceeds(gs, gn, s, n) == s > 0 /\ 10 * gs * n > 13 * s * gn

\* the patterns pushed for one weekday group (lines 85-112)
WeekdayPatterns(g, d) ==
  LET items == g.items
      gs == SumVolume(items)
      gn == Len(items)
      s == SumVolume(d)
      n == Len(d)
  IN  IF GroupTooSmall(items) THEN <<>>
      ELSE (IF AbsMeanExceeds(items, 15)
            THEN <<[type |-> IF SumChange(items) > 0 THEN "bullish" ELSE "bearish",
                    period |-> dayNames[g.key + 1],
                    strength |-> ChangeStrength(items, 30),
                    frequency |-> gn]>>
            ELSE <<>>)
        \o (IF VolumeRatioExceeds(gs, gn, s, n)
            THEN <<[type |-> "volatile",
                    period |-> dayNames[g.key + 1],
                    strength |-> Min100(Quotient((gs * n - s * gn) * 100, s * gn)),
                    frequency |-> gn]>>
            ELSE <<>>)

RECURSIVE Flatten(_)
Flatten(ss) == IF ss = <<>> THEN <<>> ELSE Head(ss) \o Flatten(Tail(ss))

\* the patterns array before the sort: the month pass, then the weekday pass
PatternPool(d) ==
  LET months == Entries("month", monthlyData(d))
      days == Entries("day", weeklyData(d))
  IN  Flatten([i \in 1 .. Len(months) |-> MonthPatterns(months[i])])
        \o Flatten([i \in 1 .. Len(days) |-> WeekdayPatterns(days[i], d)])

\* Array.prototype.sort with a comparator b.key - a.key: descending by key,
\* elements of equal key keep their order (the sort is stable).  The
\* elements are [key, item], key a fraction.
RECURSIVE InsertByKey(_, _)
InsertByKey(sorted, e) ==
  IF sorted = <<>> THEN <<e>>
  ELSE IF Greater(e.key, sorted[Len(sorted)].key)
       THEN Append(InsertByKey(SubSeq(sorted, 1, Len(sorted) - 1), e), sorted[Len(sorted)])
       ELSE Append(sorted, e)

RECURSIVE SortDescending(_)
SortDescending(s) ==
  IF s = <<>> THEN <<>>
  ELSE InsertByKey(SortDescending(SubSeq(s, 1, Len(s) - 1)), s[Len(s)])

ItemsSortedBy(keyed) ==
  LET sorted == SortDescending(keyed) IN [i \in 1 .. Len(sorted) |-> sorted[i].item]

\* the patterns left in the order the passes pushed them
SortByStrengthSkipped(s) == s

\* patterns.sort((a, b) => b.strength - a.strength)
SortByStrength(s) ==
  ItemsSortedBy([i \in 1 .. Len(s) |-> [key |-> s[i].strength, item |-> s[i]]])

Slice(s, n) == SubSeq(s, 1, IF Len(s) < n THEN Len(s) ELSE n)

\* a test on squares alone, which a series without spread passes
WithinSquaresOnly(x, vals, kn, kd) ==
  LET n == Len(vals)
      s == SumSeq(vals)
      q == SumSeq([i \in 1 .. n |-> (n * vals[i] - s) * (n * vals[i] - s)])
  IN  kd * kd * n * (n * x - s) * (n * x - s) >= kn * kn * q

(***************************************************************************)
(* PatternAnalysis: anomalies (lines 119-179)                              *)
(***************************************************************************)
\* x > mean + k * stddev over vals, k = kn / kd > 0, mean and population
\* standard deviation as computed in lines 125-134; with n = Len(vals),
\* s = sum and q = sum of (n * v - s)^2 this is
\*   n * x - s > 0  and  kd^2 * n * (n * x - s)^2 > kn^2 * q.
\* With stddev = 0 a z-score is 0 / 0 = NaN and no comparison holds.
ExceedsSigmas(x, vals, kn, kd) ==
  LET n == Len(vals)
      s == SumSeq(vals)
      q == SumSeq([i \in 1 .. n |-> (n * vals[i] - s) * (n * vals[i] - s)])
  IN  /\ n * x - s > 0
      /\ kd * kd * n * (n * x - s) * (n * x - s) > kn * kn * q

\* the same test with >= in place of >
ReachesSigmas(x, vals, kn, kd) ==
  LET n == Len(vals)
      s == SumSeq(vals)
      q == SumSeq([i \in 1 .. n |-> (n * vals[i] - s) * (n * vals[i] - s)])
  IN  /\ n * x - s > 0
      /\ kd * kd * n * (n * x - s) * (n * x - s) >= kn * kn * q

\* volumeZScore > kn / kd (lines 138-143)
VolumeZScoreExceeds(x, vals, kn, kd) == ExceedsSigmas(x, vals, kn, kd)

\* a volatility test that forgets the volatility level
IsHighVolatilityAlways(item) == TRUE

\* data.volatilityLevel === 'high'
IsHighVolatility(item) == item.volatilityLevel = "high"

\* Math.abs(data.priceChange) > avgPriceChange + k * priceChangeStdDev
PriceChangeExceeds(x, vals, kn, kd) == ExceedsSigmas(x, vals, kn, kd)

\* a gap test that also accepts a gap of exactly 5
IsPriceGapFrom5(gap) == gap >= 50

\* gap > 5, the gap in tenths of a percent (line 164)
IsPriceGap(gap) == gap > 50

\* the anomalies pushed for the point at index i (lines 136-174)
AnomaliesAt(d, i) ==
  LET volumes == [k \in 1 .. Len(d) |-> d[k].volume]
      priceChanges == [k \in 1 .. Len(d) |-> Abs(d[k].priceChange)]
      gap == IF i > 1 THEN Abs(d[i].priceChange - d[i - 1].priceChange) ELSE 0
  IN  (IF VolumeZScoreExceeds(d[i].volume, volumes, 2, 1)
       THEN <<[date |-> d[i].date, type |-> "volume_spike",
               severity |-> IF VolumeZScoreExceeds(d[i].volume, volumes, 3, 1) THEN "high"
                            ELSE IF VolumeZScoreExceeds(d[i].volume, volumes, 5, 2) THEN "medium"
                            ELSE "low",
               value |-> d[i].volume]>>
       ELSE <<>>)
   \o (IF IsHighVolatility(d[i]) /\ PriceChangeExceeds(priceChanges[i], priceChanges, 2, 1)
       THEN <<[date |-> d[i].date, type |-> "volatility_spike",
               severity |-> IF PriceChangeExceeds(priceChanges[i], priceChanges, 3, 1)
                            THEN "high" ELSE "medium",
               value |-> priceChanges[i]]>>
       ELSE <<>>)
   \o (IF i > 1 /\ IsPriceGap(gap)
       THEN <<[date |-> d[i].date, type |-> "price_gap",
               severity |-> IF gap > 100 THEN "high" ELSE IF gap > 70 THEN "medium" ELSE "low",
               value |-> gap]>>
       ELSE <<>>)

\* the anomalies array before the sort
AnomalyPool(d) == Flatten([i \in 1 .. Len(d) |-> AnomaliesAt(d, i)])

\* a sort that puts the earliest date first
SortByDateAscending(s) ==
  ItemsSortedBy([i \in 1 .. Len(s) |->
     [key |-> [num |-> 0 - Parse(s[i].date), den |-> 1], item |-> s[i]]])

\* anomalies.sort((a, b) => dayjs(b.date).valueOf() - dayjs(a.date).valueOf())
SortByDateDescending(s) ==
  ItemsSortedBy([i \in 1 .. Len(s) |->
     [key |-> [num |-> Parse(s[i].date), den |-> 1], item |-> s[i]]])

(***************************************************************************)
(* The series handed to PatternAnalysis.  Means, ratios and z-scores are   *)
(* compared in exact arithmetic; the values below are ones on which the    *)
(* double arithmetic of the code gives the same comparisons, also where a  *)
(* quantity sits exactly on a threshold.                                   *)
(***************************************************************************)
BaseProfiles ==
  {[volatilityLevel |-> "low", volume |-> 10, performance |-> "neutral",
    priceChange |-> 0, liquidity |-> 50],
   [volatilityLevel |-> "low", volume |-> 10, performance |-> "positive",
    priceChange |-> 10, liquidity |-> 50],
   [volatilityLevel |-> "low", volume |-> 10, performance |-> "positive",
    priceChange |-> 40, liquidity |-> 50],
   [volatilityLevel |-> "low", volume |-> 10, performance |-> "positive",
    priceChange |-> 15, liquidity |-> 50],
   [volatilityLevel |-> "low", volume |-> 10, performance |-> "positive",
    priceChange |-> 20, liquidity |-> 50],
   [volatilityLevel |-> "low", volume |-> 10, performance |-> "positive",
    priceChange |-> 30, liquidity |-> 50],
   [volatilityLevel |-> "medium", volume |-> 10, performance |-> "negative",
    priceChange |-> -30, liquidity |-> 50],
   [volatilityLevel |-> "high", volume |-> 10, performance |-> "positive",
    priceChange |-> 30, liquidity |-> 50]}

SpecialProfiles ==
  {[volatilityLevel |-> "low", volume |-> 30, performance |-> "neutral",
    priceChange |-> 0, liquidity |-> 90],
   [volatilityLevel |-> "high", volume |-> 10, performance |-> "positive",
    priceChange |-> 80, liquidity |-> 20],
   [volatilityLevel |-> "low", volume |-> 10, performance |-> "positive",
    priceChange |-> 80, liquidity |-> 20],
   [volatilityLevel |-> "medium", volume |-> 10, performance |-> "positive",
    priceChange |-> 80, liquidity |-> 20],
   [volatilityLevel |-> "high", volume |-> 30, performance |-> "negative",
    priceChange |-> -60, liquidity |-> 20]}

\* which points of a series are special: none, those of one weekday, or
\* every other point
Selectors == {<<"none", 0>>, <<"day", 1>>, <<"day", 2>>, <<"day", 4>>, <<"odd", 0>>}

Selected(sel, i, n) ==
  \/ sel[1] = "day" /\ DayOf(n) = sel[2]
  \/ sel[1] = "odd" /\ i % 2 = 1

\* the ordinary profile of a series, its special profile and the points
\* that get it; the last one puts the Monday volume of a 30-day series at
\* exactly 1.3 times the overall mean
Scenarios ==
  (BaseProfiles \X SpecialProfiles \X Selectors)
  \cup {<<[volatilityLevel |-> "low", volume |-> 235, performance |-> "neutral",
           priceChange |-> 0, liquidity |-> 50],
          [volatilityLevel |-> "low", volume |-> 325, performance |-> "neutral",
           priceChange |-> 0, liquidity |-> 90],
          <<"day", 1>>>>}

\* 2024-01-01 and 2024-01-29, both Mondays
SeriesStarts == {0, 28}

\* the calendars of a series: one point a day; one point every 31 days, so
\* that a month gathers points of several years; one point a day with the
\* Wednesdays left out after the first two weeks, so that a weekday has
\* only two points
Calendars == {"daily", "every31", "thinWednesday"}

\* the day of the i-th point; on the thinned calendar the first 14 days are
\* all there, and every 7 days after them hold 6 points, the Wednesday
\* being skipped
DayAt(cal, start, i) ==
  IF cal = "daily" \/ (cal = "thinWednesday" /\ i <= 14) THEN start + (i - 1)
  ELSE IF cal = "every31" THEN start + (i - 1) * 31
  ELSE LET week == (i - 15) \div 6
           pos == (i - 15) % 6
           wednesday == (3 - DayOf(start) + 7) % 7
       IN  start + 14 + 7 * week + (IF pos < wednesday THEN pos ELSE pos + 1)

SeriesLengths ==
  {0} \cup (MinAnomalyPoints - 1 .. MinAnomalyPoints + MaxExtra)
      \cup (MinPatternPoints - 1 .. MinPatternPoints + MaxExtra)

InitPat ==
  /\ \E start \in SeriesStarts, cal \in Calendars, n \in SeriesLengths,
        sc \in Scenarios :
       marketData = [i \in 1 .. n |->
                       MarketDataPoint(Format(DayAt(cal, start, i)),
                          IF Selected(sc[3], i, DayAt(cal, start, i))
                          THEN sc[2] ELSE sc[1])]
  /\ patterns = <<>>
  /\ seasonalPatterns = <<>>
  /\ detected = <<>>
  /\ anomalies = <<>>
  /\ render = "start"
  /\ GenIdle
  /\ AggIdle
  /\ OthersIdle("none")

\* the useMemo of lines 33-116
computeSeasonalPatterns ==
  /\ render = "start"
  /\ IF TooFewPoints(marketData, MinPatternPoints)
     THEN patterns' = <<>> /\ seasonalPatterns' = <<>>
     ELSE /\ patterns' = PatternPool(marketData)
          /\ seasonalPatterns' = Slice(SortByStrength(patterns'), MaxPatterns)
  /\ render' = "patterns"
  /\ UNCHANGED <<marketData, detected, anomalies, genVars, aggVars>>
  /\ OthersUnchanged("none")

\* the useMemo of lines 119-179
computeAnomalies ==
  /\ render = "patterns"
  /\ IF TooFewPoints(marketData, MinAnomalyPoints)
     THEN detected' = <<>> /\ anomalies' = <<>>
     ELSE /\ detected' = AnomalyPool(marketData)
          /\ anomalies' = Slice(SortByDateDescending(detected'), MaxAnomalies)
  /\ render' = "done"
  /\ UNCHANGED <<marketData, patterns, seasonalPatterns, genVars, aggVars>>
  /\ OthersUnchanged("none")

NextPat == computeSeasonalPatterns \/ computeAnomalies

SpecPat == InitPat /\ [][NextPat]_vars

(***************************************************************************)
(* Claims about the seasonal pattern detector                              *)
(***************************************************************************)
\* C13: the detector returns at most 6 patterns, in order of non-increasing
\* strength, and every pattern the truncation drops is no stronger than any
\* pattern it keeps.
C13_TopSixByStrength ==
  render # "start" =>
    /\ Len(seasonalPatterns) <= 6
    /\ \A i, j \in 1 .. Len(seasonalPatterns) :
         i < j => ~Greater(seasonalPatterns[j].strength, seasonalPatterns[i].strength)
    /\ \A i \in 1 .. Len(seasonalPatterns) :
         CountOf(seasonalPatterns, seasonalPatterns[i]) <= CountOf(patterns, seasonalPatterns[i])
    /\ \A i \in 1 .. Len(patterns) :
         CountOf(seasonalPatterns, patterns[i]) < CountOf(patterns, patterns[i])
         => \A k \in 1 .. Len(seasonalPatterns) :
              ~Greater(patterns[i].strength, seasonalPatterns[k].strength)

\* more than 6 patterns found, not in order of strength, and a strictly
\* weaker one dropped
C13_Witness ==
  /\ render # "start"
  /\ Len(patterns) > 6
  /\ Len(seasonalPatterns) = 6
  /\ \E i, j \in 1 .. Len(patterns) :
       i < j /\ Greater(patterns[j].strength, patterns[i].strength)
  /\ Greater(seasonalPatterns[1].strength, seasonalPatterns[6].strength)
  /\ \E i \in 1 .. Len(patterns) :
       /\ CountOf(seasonalPatterns, patterns[i]) = 0
       /\ Greater(seasonalPatterns[6].strength, patterns[i].strength)

\* C14: a series of fewer than 30 points (the empty one included) yields no
\* seasonal pattern and a series of fewer than 10 points yields no anomaly,
\* whatever the data.
C14_ThinSamplesYieldNothing ==
  /\ render # "start" /\ Len(marketData) < 30
       => patterns = <<>> /\ seasonalPatterns = <<>>
  /\ render = "done" /\ Len(marketData) < 10
       => detected = <<>> /\ anomalies = <<>>

\* a series of exactly 30 points is eligible for both detectors
C14_Witness ==
  /\ render = "done"
  /\ Len(marketData) = 30
  /\ seasonalPatterns # <<>>
  /\ anomalies # <<>>

\* the strength s equals min(100, |sum| * factor / (10 * n)), the sum being
\* in tenths of a percent
IsCappedStrength(s, sum, n, factor) ==
  IF Abs(sum) * factor >= 1000 * n
  THEN s.num = 100 * s.den
  ELSE s.num * 10 * n = Abs(sum) * factor * s.den

\* the found patterns of a period whose type is one of types
PatternsOf(label, types) ==
  SelectSeq(patterns, LAMBDA q : q.period = label /\ q.type \in types)

MonthPoints(m) == SelectSeq(marketData, LAMBDA d : d.date[2] = m)

\* C15: in a series the detector accepts, the points of one calendar month
\* (of any year) give nothing when they are fewer than 3; otherwise one
\* bullish pattern when their mean priceChange is above 2, one bearish
\* pattern when it is below -2 and neither when it is within [-2, 2]; the
\* pattern has strength min(100, |mean| * 20) and frequency the number of
\* points.
C15_MonthOfYearPass ==
  render # "start" /\ Len(marketData) >= 30 =>
    \A m \in 1 .. 12 :
      LET pts == MonthPoints(m)
          n == Len(pts)
          sum == SumSeq([i \in 1 .. n |-> pts[i].priceChange])
          found == PatternsOf(MonthLabel(m), {"bullish", "bearish"})
      IN  /\ n < 3 => PatternsOf(MonthLabel(m), {"bullish", "bearish", "volatile"}) = <<>>
          /\ n >= 3 /\ Abs(sum) <= 20 * n => found = <<>>
          /\ n >= 3 /\ Abs(sum) > 20 * n =>
               /\ Len(found) = 1
               /\ found[1].type = (IF sum > 0 THEN "bullish" ELSE "bearish")
               /\ IsCappedStrength(found[1].strength, sum, n, 20)
               /\ found[1].frequency = n

\* at least 3 January points of several years with mean 3.0 give a bullish
\* pattern of strength 60
C15_Witness ==
  /\ render # "start"
  /\ LET pts == MonthPoints(1)
     IN  /\ Len(pts) >= 3
         /\ \E i, j \in 1 .. Len(pts) : pts[i].date[1] # pts[j].date[1]
         /\ SumSeq([i \in 1 .. Len(pts) |-> pts[i].priceChange]) = 30 * Len(pts)
         /\ \E k \in 1 .. Len(patterns) :
              patterns[k] = [type |-> "bullish", period |-> "Month 01",
                             strength |-> [num |-> 60, den |-> 1],
                             frequency |-> Len(pts)]

WeekdayPoints(w) == SelectSeq(marketData, LAMBDA d : DayOf(Parse(d.date)) = w)

\* C16: in a series the detector accepts, the points of one weekday give
\* nothing when they are fewer than 3; otherwise they give one bullish or
\* bearish pattern exactly when the absolute value of their mean
\* priceChange is strictly above 1.5 and, independently, one volatile
\* pattern exactly when their mean volume is strictly above 1.3 times the
\* mean volume of the series.
C16_DayOfWeekPass ==
  render # "start" /\ Len(marketData) >= 30 =>
    \A w \in 0 .. 6 :
      LET pts == WeekdayPoints(w)
          n == Len(pts)
          sum == SumSeq([i \in 1 .. n |-> pts[i].priceChange])
          volume == SumSeq([i \in 1 .. n |-> pts[i].volume])
          total == SumSeq([i \in 1 .. Len(marketData) |-> marketData[i].volume])
          directional == PatternsOf(dayNames[w + 1], {"bullish", "bearish"})
          volatile == PatternsOf(dayNames[w + 1], {"volatile"})
      IN  /\ n < 3 => directional = <<>> /\ volatile = <<>>
          /\ n >= 3 =>
               /\ Len(directional) = (IF 10 * Abs(sum) > 15 * 10 * n THEN 1 ELSE 0)
               /\ Len(directional) = 1 =>
                    directional[1].type = (IF sum > 0 THEN "bullish" ELSE "bearish")
               /\ Len(volatile) =
                    (IF 10 * volume * Len(marketData) > 13 * total * n THEN 1 ELSE 0)

\* a weekday that contributes two patterns
C16_Witness ==
  /\ render # "start"
  /\ \E w \in 0 .. 6 :
       /\ Len(PatternsOf(dayNames[w + 1], {"bullish", "bearish"})) = 1
       /\ Len(PatternsOf(dayNames[w + 1], {"volatile"})) = 1

\* C17: every pattern found, of either pass and of any type, has a strength
\* within [0, 100] (the volumes of a series are never negative).
C17_StrengthWithinBounds ==
  \A k \in 1 .. Len(patterns) :
    /\ patterns[k].strength.den > 0
    /\ patterns[k].strength.num >= 0
    /\ patterns[k].strength.num <= 100 * patterns[k].strength.den

\* patterns of the three types from both passes, one of them with a mean
\* change beyond 5 percent, whose strength the bound of 100 cuts
C17_Witness ==
  /\ \A ty \in {"bullish", "bearish", "volatile"} :
       \E k \in 1 .. Len(patterns) : patterns[k].type = ty
  /\ \E k \in 1 .. Len(patterns) : patterns[k].period \in {"Month 01", "Month 02"}
  /\ \E w \in 0 .. 6 :
       LET pts == WeekdayPoints(w)
       IN  /\ Len(pts) >= 3
           /\ Abs(SumSeq([i \in 1 .. Len(pts) |-> pts[i].priceChange])) > 50 * Len(pts)
           /\ \E k \in 1 .. Len(patterns) :
                /\ patterns[k].period = dayNames[w + 1]
                /\ patterns[k].type \in {"bullish", "bearish"}
                /\ patterns[k].strength = [num |-> 100, den |-> 1]

(***************************************************************************)
(* Claims about the anomaly detector                                       *)
(***************************************************************************)
\* C18: the detector returns at most 10 anomalies, the most recent first,
\* and when it finds more than 10 the ones it drops are no later than any
\* it keeps.
C18_LatestTenByDate ==
  render = "done" =>
    /\ Len(anomalies) <= 10
    /\ Len(detected) > 10 => Len(anomalies) = 10
    /\ \A i, j \in 1 .. Len(anomalies) :
         i < j => Parse(anomalies[i].date) >= Parse(anomalies[j].date)
    /\ \A i \in 1 .. Len(anomalies) :
         CountOf(anomalies, anomalies[i]) <= CountOf(detected, anomalies[i])
    /\ \A i \in 1 .. Len(detected) :
         CountOf(anomalies, detected[i]) < CountOf(detected, detected[i])
         => \A k \in 1 .. Len(anomalies) :
              Parse(detected[i].date) <= Parse(anomalies[k].date)

\* more than 10 anomalies found, of several dates, the earliest dropped
C18_Witness ==
  /\ render = "done"
  /\ Len(detected) > 10
  /\ Len(anomalies) = 10
  /\ Parse(anomalies[1].date) > Parse(anomalies[10].date)
  /\ CountOf(anomalies, detected[1]) = 0
  /\ Parse(detected[1].date) < Parse(anomalies[10].date)

\* (x - mean) / stddev > kn / kd for the mean and the population standard
\* deviation of vals, from the sum and the sum of squares:
\* variance = (sum of squares) / n - mean^2
ZScoreAbove(x, vals, kn, kd) ==
  LET n == Len(vals)
      s == SumSeq(vals)
      sq == SumSeq([i \in 1 .. n |-> vals[i] * vals[i]])
  IN  /\ n * x > s
      /\ kd * kd * (n * x - s) * (n * x - s) > kn * kn * (n * sq - s * s)

\* the same with equality: the z-score is exactly kn / kd
ZScoreIs(x, vals, kn, kd) ==
  LET n == Len(vals)
      s == SumSeq(vals)
      sq == SumSeq([i \in 1 .. n |-> vals[i] * vals[i]])
  IN  /\ n * x > s
      /\ kd * kd * (n * x - s) * (n * x - s) = kn * kn * (n * sq - s * s)

Volumes == [i \in 1 .. Len(marketData) |-> marketData[i].volume]
AbsChanges == [i \in 1 .. Len(marketData) |-> Abs(marketData[i].priceChange)]

\* the anomalies of one type found for the i-th point
FoundAt(i, ty) ==
  SelectSeq(detected, LAMBDA a : a.type = ty /\ a.date = marketData[i].date)

\* C19: with z the z-score of a point's volume (population standard
\* deviation over the series), the point gives a volume_spike exactly when
\* z > 2; the severity is high when z > 3, medium when 2.5 < z <= 3 and low
\* when 2 < z <= 2.5.
C19_VolumeSpikeRule ==
  render = "done" /\ Len(marketData) >= 10 =>
    \A i \in 1 .. Len(marketData) :
      LET found == FoundAt(i, "volume_spike")
          above(kn, kd) == ZScoreAbove(marketData[i].volume, Volumes, kn, kd)
      IN  /\ Len(found) = (IF above(2, 1) THEN 1 ELSE 0)
          /\ Len(found) = 1 =>
               /\ found[1].severity = "high" <=> above(3, 1)
               /\ found[1].severity = "medium" <=> above(5, 2) /\ ~above(3, 1)
               /\ found[1].severity = "low" <=> ~above(5, 2)

\* a series of exactly 10 points with a volume at z = 3, flagged medium
C19_Witness ==
  /\ render = "done"
  /\ Len(marketData) = 10
  /\ \E i \in 1 .. Len(marketData) :
       /\ ZScoreIs(marketData[i].volume, Volumes, 3, 1)
       /\ Len(FoundAt(i, "volume_spike")) = 1
       /\ FoundAt(i, "volume_spike")[1].severity = "medium"

\* C20: a point gives a volatility_spike exactly when its volatilityLevel
\* is high and |priceChange| is strictly above the mean of |priceChange|
\* plus 2 standard deviations; the severity is high above the mean plus 3
\* standard deviations and medium otherwise.
C20_VolatilitySpikeRule ==
  render = "done" /\ Len(marketData) >= 10 =>
    \A i \in 1 .. Len(marketData) :
      LET found == FoundAt(i, "volatility_spike")
          above(k) == ZScoreAbove(AbsChanges[i], AbsChanges, k, 1)
      IN  /\ Len(found) =
               (IF marketData[i].volatilityLevel = "high" /\ above(2) THEN 1 ELSE 0)
          /\ Len(found) = 1 =>
               found[1].severity = (IF above(3) THEN "high" ELSE "medium")

\* a volatility_spike of each severity cannot be in one series of the
\* bounds; this one has a high-level point beyond 3 standard deviations
C20_Witness ==
  /\ render = "done"
  /\ \E i \in 1 .. Len(marketData) :
       /\ marketData[i].volatilityLevel = "high"
       /\ ZScoreAbove(AbsChanges[i], AbsChanges, 3, 1)
       /\ Len(FoundAt(i, "volatility_spike")) = 1
       /\ FoundAt(i, "volatility_spike")[1].severity = "high"

\* C21: the first point of a series gives no price_gap; a later point gives
\* one exactly when its priceChange differs from that of the element just
\* before it by strictly more than 5, with severity high above 10, medium
\* above 7 and up to 10, low otherwise; a point can give an anomaly of each
\* of the three types.
C21_PriceGapRule ==
  render = "done" /\ Len(marketData) >= 10 =>
    \A i \in 1 .. Len(marketData) :
      LET found == FoundAt(i, "price_gap")
          gap == IF i = 1 THEN 0
                 ELSE Abs(marketData[i].priceChange - marketData[i - 1].priceChange)
      IN  /\ i = 1 => found = <<>>
          /\ Len(found) = (IF i > 1 /\ gap > 50 THEN 1 ELSE 0)
          /\ Len(found) = 1 =>
               /\ found[1].value = gap
               /\ found[1].severity =
                    (IF gap > 100 THEN "high" ELSE IF gap > 70 THEN "medium" ELSE "low")

\* a point with a volume_spike, a volatility_spike and a price_gap
C21_Witness ==
  /\ render = "done"
  /\ \E i \in 2 .. Len(marketData) :
       /\ Len(FoundAt(i, "price_gap")) = 1
       /\ Len(FoundAt(i, "volume_spike")) = 1
       /\ Len(FoundAt(i, "volatility_spike")) = 1

IsConstant(vals) == \A i, j \in 1 .. Len(vals) : vals[i] = vals[j]

\* C22: a series of at least 10 points gives no volume_spike when all its
\* volumes are equal and no volatility_spike when all its |priceChange| are
\* equal (the analysis of such a series ends: the witness is a state after
\* it).
C22_NoSpreadNoSpike ==
  render = "done" /\ Len(marketData) >= 10 =>
    /\ IsConstant(Volumes) =>
         \A i \in 1 .. Len(detected) : detected[i].type # "volume_spike"
    /\ IsConstant(AbsChanges) =>
         \A i \in 1 .. Len(detected) : detected[i].type # "volatility_spike"

\* a series of high-volatility points, all of one volume and one priceChange
C22_Witness ==
  /\ render = "done"
  /\ Len(marketData) >= 10
  /\ IsConstant(Volumes)
  /\ IsConstant(AbsChanges)
  /\ \A i \in 1 .. Len(marketData) :
       marketData[i].volatilityLevel = "high" /\ marketData[i].priceChange # 0
  /\ detected = <<>>

(***************************************************************************)
(* market-utils.ts: getMarketDataForDate, formatVolume;                    *)
(* enhanced-export.ts: formatVolume                                        *)
(***************************************************************************)
\* Array.prototype.find: the first element that passes, or undefined
Find(d, test(_)) ==
  LET hits == SelectSeq(d, test)
  IN  IF hits = <<>> THEN Undefined ELSE [kind |-> "record", value |-> hits[1]]

\* lines 148-151; date is a Date instant, formatted in local time
getMarketDataForDate(d, date) ==
  LET dateString == Format(date.day)
  IN  Find(d, LAMBDA x : x.date = dateString)

\* a rendered number: digits is the number scaled by 10^decimals, so that
\* "1.0K" is [digits |-> 10, decimals |-> 1, suffix |-> "K"] and "-1000" is
\* [digits |-> -1000, decimals |-> 0, suffix |-> ""]
Rendered(digits, decimals, suffix) ==
  [digits |-> digits, decimals |-> decimals, suffix |-> suffix]

\* 10^d for the d that occur
Pow10(d) == IF d = 0 THEN 1 ELSE 10

\* (volume / unit).toFixed(d) for volume >= 0: the nearest multiple of
\* 10^-d, the larger one when both are equally near
ToFixed(volume, unit, d) ==
  LET step == unit \div Pow10(d)
  IN  volume \div step + (IF 2 * (volume % step) >= step THEN 1 ELSE 0)

Thousand == 1000
Million == 1000 * 1000
Billion == 1000 * 1000 * 1000

\* market-utils.ts lines 153-161
formatVolume(volume) ==
  IF volume >= Million THEN Rendered(ToFixed(volume, Million, 1), 1, "M")
  ELSE IF volume >= Thousand THEN Rendered(ToFixed(volume, Thousand, 0), 0, "K")
  ELSE Rendered(volume, 0, "")

\* enhanced-export.ts lines 270-279
exportFormatVolume(volume) ==
  IF volume >= Billion THEN Rendered(ToFixed(volume, Billion, 1), 1, "B")
  ELSE IF volume >= Million THEN Rendered(ToFixed(volume, Million, 1), 1, "M")
  ELSE IF volume >= Thousand THEN Rendered(ToFixed(volume, Thousand, 1), 1, "K")
  ELSE Rendered(volume, 0, "")

\* the records of the test of getMarketDataForDate: two dates, and series of
\* up to MaxLookupLen records over them (a date can occur twice)
LookupDates == {<<2024, 1, 15>>, <<2024, 1, 16>>}
MaxLookupLen == 2
LookupSeries ==
  UNION {[1 .. n -> {MarketDataPoint(d, pr) : d \in LookupDates, pr \in Profiles}] :
           n \in 0 .. MaxLookupLen}
\* the days asked for: 2024-01-15 .. 2024-01-17
LookupDays == {Parse(<<2024, 1, 15>>) + k : k \in 0 .. 2}

\* the volumes of the tests of formatVolume and the unit boundaries
VolumeSamples ==
  {0, 500, 999, 1000, 1234, 1500, 999999, Million, 1234567, 1500000,
   999999999, Billion, 1500000000, -500, -1000, -1500000}

InitLib ==
  /\ libData \in LookupSeries
  /\ libArg = 0
  /\ libResult = 0
  /\ libOp = "idle"
  /\ GenIdle
  /\ AggIdle
  /\ PatIdle
  /\ OthersIdle("lib")

callGetMarketDataForDate ==
  /\ libOp = "idle"
  /\ \E day \in LookupDays, tod \in TimesOfDay :
       /\ libArg' = [day |-> day, tod |-> tod]
       /\ libResult' = getMarketDataForDate(libData, libArg')
  /\ libOp' = "getMarketDataForDate"
  /\ UNCHANGED <<libData, genVars, aggVars, patVars>>
  /\ OthersUnchanged("lib")

callFormatVolume ==
  /\ libOp = "idle"
  /\ \E volume \in VolumeSamples :
       /\ libArg' = volume
       /\ libResult' = formatVolume(volume)
  /\ libOp' = "formatVolume"
  /\ UNCHANGED <<libData, genVars, aggVars, patVars>>
  /\ OthersUnchanged("lib")

callExportFormatVolume ==
  /\ libOp = "idle"
  /\ \E volume \in VolumeSamples :
       /\ libArg' = volume
       /\ libResult' = exportFormatVolume(volume)
  /\ libOp' = "exportFormatVolume"
  /\ UNCHANGED <<libData, genVars, aggVars, patVars>>
  /\ OthersUnchanged("lib")

NextLib == callGetMarketDataForDate \/ callFormatVolume \/ callExportFormatVolume

SpecLib == InitLib /\ [][NextLib]_vars

\* C23: getMarketDataForDate returns the record of the requested calendar
\* day when the series has one, and null when it has none (the empty series
\* included).
C23_RecordOfTheDayOrNull ==
  libOp = "getMarketDataForDate" =>
    LET wanted == Format(libArg.day)
        has == \E i \in 1 .. Len(libData) : libData[i].date = wanted
    IN  IF has
        THEN /\ libResult.kind = "record"
             /\ libResult.value.date = wanted
             /\ \E i \in 1 .. Len(libData) : libData[i] = libResult.value
        ELSE libResult = Null

\* the number a rendered text stands for, in the unit of its suffix
C24_Claimed(volume) ==
  LET a == Abs(volume)
      sign == IF volume < 0 THEN -1 ELSE 1
  IN  IF a < Thousand THEN Rendered(volume, 0, "")
      ELSE IF a < Million THEN Rendered(sign * ToFixed(a, Thousand, 1), 1, "K")
      ELSE IF a < Billion THEN Rendered(sign * ToFixed(a, Million, 1), 1, "M")
      ELSE Rendered(sign * ToFixed(a, Billion, 1), 1, "B")

\* C24: formatVolume renders a value below 1000 in absolute value as the
\* plain number, and otherwise in thousands (K), millions (M) or billions
\* (B) of its absolute value with one decimal, keeping the sign.
C24_UnitByMagnitude ==
  libOp \in {"formatVolume", "exportFormatVolume"} => libResult = C24_Claimed(libArg)

(***************************************************************************)
(* The Home page (page component with FiltersBar and Calendar): its React  *)
(* state, the market-data query of useMarketData, the mock fallback effect *)
(* and the handlers of the zoom, view, filter and data-source controls.    *)
(* One action is one event: the handler, the render that follows and the   *)
(* effects of that render.                                                 *)
(***************************************************************************)
Views == <<"daily", "weekly", "monthly">>
Instruments == {"BTCUSDT", "ETHUSDT"}
MetricTypes == {"combined", "volatility"}
TimePeriods == {"1M", "3M", "6M", "1Y", "2Y", "ALL"}

\* dayjs() when the date range is computed: 2025-12-01, during the day
Now == [day |-> 700, tod |-> 1]

\* the first day of month m of year y, and the number of days of that month
MonthStart(y, m) == DaysFromCivil(<<y, m, 1>>)
MonthLength(y, m) ==
  (IF m = 12 THEN MonthStart(y + 1, 1) ELSE MonthStart(y, m + 1)) - MonthStart(y, m)

Smaller(a, b) == IF a < b THEN a ELSE b

\* the day of month number `months` (counted from year 0) that has date d, or
\* the last day of that month when it is shorter
ClampedDay(months, d) ==
  MonthStart(months \div 12, (months % 12) + 1)
    + Smaller(d, MonthLength(months \div 12, (months % 12) + 1)) - 1

MonthsEarlier(c, k) == ClampedDay(c[1] * 12 + (c[2] - 1) - k, c[3])

\* dayjs(a).subtract(k, 'month'): the same date k months earlier, clamped to
\* the length of that month
SubtractMonths(a, k) == [day |-> MonthsEarlier(CivilFromDays(a.day), k), tod |-> a.tod]

\* the months the switch of the dateRange memo goes back
MonthsBack(period) ==
  CASE period = "1M" -> 1
    [] period = "3M" -> 3
    [] period = "6M" -> 6
    [] period = "1Y" -> 12
    [] period = "2Y" -> 24
    [] period = "ALL" -> 36
    [] OTHER -> 6

\* the dateRange memo, one value per time period
dateRanges ==
  [period \in TimePeriods |->
     [startDate |-> SubtractMonths(Now, MonthsBack(period)), endDate |-> Add(Now, 1)]]

dateRange(period) == dateRanges[period]

\* generateMockMarketData(start, end) returns only when its loop condition is
\* false on entry (and then returns []): the cursor never moves
\* (CursorAfterAdd), so a condition that is true on entry stays true
GeneratorReturns(start, end) ==
  \/ ~(IsBefore(start, end) \/ IsSameDay(start, end))
  \/ CursorAfterAdd(start) # start

\* the fallback effect: it runs when one of its dependencies changed, and
\* calls the generator when mock mode is on or the query has an error; a
\* call that does not return blocks the page for good
MockEffect(depsChanged, real, error, range, mock) ==
  IF depsChanged /\ (~real \/ error # Null)
  THEN IF GeneratorReturns(range.startDate, range.endDate)
       THEN [mockData |-> <<>>, page |-> "ready"]
       ELSE [mockData |-> mock, page |-> "blocked"]
  ELSE [mockData |-> mock, page |-> "ready"]

\* useQuery with `enabled`: when the key or `enabled` changed, an enabled
\* query that has no data and is not being fetched is fetched, and its error
\* is cleared
Observe(qs, sym, real, changed) ==
  IF changed /\ real /\ qs[sym].data = Undefined /\ ~qs[sym].fetching
  THEN [qs EXCEPT ![sym] = [data |-> Undefined, error |-> Null, fetching |-> TRUE]]
  ELSE qs

\* the series the page hands to its children (memo `marketData`)
homeMarketData ==
  LET q == queries[instrument]
  IN  IF useRealData /\ q.data # Undefined /\ q.error = Null THEN q.data ELSE mockData

\* the render after a handler has set the data source, the instrument and the
\* time period, with the query cache qs0: a new time period gives a new date
\* range and so new query keys; then the effect runs
Rerender(real, sym, period, qs0) ==
  LET qs1 == IF period # timePeriod THEN [s \in Instruments |-> FreshQuery] ELSE qs0
      changed == period # timePeriod \/ sym # instrument \/ real # useRealData
      qs == Observe(qs1, sym, real, changed)
      depsChanged == \/ period # timePeriod
                     \/ real # useRealData
                     \/ qs[sym].error # queries[instrument].error
      eff == MockEffect(depsChanged, real, qs[sym].error, dateRange(period), mockData)
  IN  /\ useRealData' = real
      /\ instrument' = sym
      /\ timePeriod' = period
      /\ queries' = qs
      /\ mockData' = eff.mockData
      /\ page' = eff.page

\* FiltersBar: the flags behind `disabled` of the two zoom buttons
canZoomIn(v) == v = "monthly"
canZoomOut(v) == v = "daily"

handleZoomIn(v) ==
  IF v = "daily" THEN "weekly" ELSE IF v = "weekly" THEN "monthly" ELSE v

handleZoomOut(v) ==
  IF v = "monthly" THEN "weekly" ELSE IF v = "weekly" THEN "daily" ELSE v

\* the page after its first render and its mount effects: real mode, the
\* query of the first instrument in flight, no mock series yet
InitHome ==
  /\ view = "daily"
  /\ selectedDate = "today"
  /\ isPanelOpen = FALSE
  /\ useRealData = TRUE
  /\ instrument = "BTCUSDT"
  /\ metricType = "combined"
  /\ timePeriod = "6M"
  /\ queries = Observe([s \in Instruments |-> FreshQuery], "BTCUSDT", TRUE, TRUE)
  /\ mockData = MockEffect(TRUE, TRUE, Null, dateRange("6M"), <<>>).mockData
  /\ page = "ready"
  /\ lastHandler = "none"
  /\ viewBefore = "daily"
  /\ GenIdle
  /\ AggIdle
  /\ PatIdle
  /\ OthersIdle("home")

\* lastHandler and viewBefore remember the last zoom click and the view it
\* found; any other event clears them ("other", the view itself)

\* a click on the enabled Zoom In button
clickZoomIn ==
  /\ page = "ready"
  /\ canZoomIn(view)
  /\ view' = handleZoomIn(view)
  /\ viewBefore' = view
  /\ lastHandler' = "handleZoomIn"
  /\ Rerender(useRealData, instrument, timePeriod, queries)
  /\ UNCHANGED <<selectedDate, isPanelOpen, metricType, genVars, aggVars, patVars>>
  /\ OthersUnchanged("home")

\* a click on the enabled Zoom Out button
clickZoomOut ==
  /\ page = "ready"
  /\ canZoomOut(view)
  /\ view' = handleZoomOut(view)
  /\ viewBefore' = view
  /\ lastHandler' = "handleZoomOut"
  /\ Rerender(useRealData, instrument, timePeriod, queries)
  /\ UNCHANGED <<selectedDate, isPanelOpen, metricType, genVars, aggVars, patVars>>
  /\ OthersUnchanged("home")

\* a click on one of the three view buttons of the Calendar
onViewChange ==
  /\ page = "ready"
  /\ \E i \in 1 .. Len(Views) : view' = Views[i]
  /\ viewBefore' = view'
  /\ lastHandler' = "other"
  /\ Rerender(useRealData, instrument, timePeriod, queries)
  /\ UNCHANGED <<selectedDate, isPanelOpen, metricType, genVars, aggVars, patVars>>
  /\ OthersUnchanged("home")

handleDateSelect ==
  /\ page = "ready"
  /\ selectedDate' = "picked"
  /\ isPanelOpen' = TRUE
  /\ viewBefore' = view
  /\ lastHandler' = "other"
  /\ Rerender(useRealData, instrument, timePeriod, queries)
  /\ UNCHANGED <<view, metricType, genVars, aggVars, patVars>>
  /\ OthersUnchanged("home")

onClose ==
  /\ page = "ready"
  /\ isPanelOpen
  /\ isPanelOpen' = FALSE
  /\ viewBefore' = view
  /\ lastHandler' = "other"
  /\ Rerender(useRealData, instrument, timePeriod, queries)
  /\ UNCHANGED <<view, selectedDate, metricType, genVars, aggVars, patVars>>
  /\ OthersUnchanged("home")

handleReset ==
  /\ page = "ready"
  /\ view' = "daily"
  /\ selectedDate' = "today"
  /\ metricType' = "combined"
  /\ isPanelOpen' = FALSE
  /\ viewBefore' = view'
  /\ lastHandler' = "other"
  /\ Rerender(useRealData, "BTCUSDT", "6M", queries)
  /\ UNCHANGED <<genVars, aggVars, patVars>>
  /\ OthersUnchanged("home")

setInstrument ==
  /\ page = "ready"
  /\ \E sym \in Instruments : Rerender(useRealData, sym, timePeriod, queries)
  /\ viewBefore' = view
  /\ lastHandler' = "other"
  /\ UNCHANGED <<view, selectedDate, isPanelOpen, metricType, genVars, aggVars, patVars>>
  /\ OthersUnchanged("home")

setMetricType ==
  /\ page = "ready"
  /\ \E m \in MetricTypes : metricType' = m
  /\ viewBefore' = view
  /\ lastHandler' = "other"
  /\ Rerender(useRealData, instrument, timePeriod, queries)
  /\ UNCHANGED <<view, selectedDate, isPanelOpen, genVars, aggVars, patVars>>
  /\ OthersUnchanged("home")

setTimePeriod ==
  /\ page = "ready"
  /\ \E period \in TimePeriods : Rerender(useRealData, instrument, period, queries)
  /\ viewBefore' = view
  /\ lastHandler' = "other"
  /\ UNCHANGED <<view, selectedDate, isPanelOpen, metricType, genVars, aggVars, patVars>>
  /\ OthersUnchanged("home")

\* the Real Data and Mock Data buttons
setUseRealData ==
  /\ page = "ready"
  /\ \E real \in BOOLEAN : Rerender(real, instrument, timePeriod, queries)
  /\ viewBefore' = view
  /\ lastHandler' = "other"
  /\ UNCHANGED <<view, selectedDate, isPanelOpen, metricType, genVars, aggVars, patVars>>
  /\ OthersUnchanged("home")

\* fetchMarketData resolves for a query in flight: its series arrives
fetchResolves ==
  /\ page = "ready"
  /\ \E sym \in Instruments :
       /\ queries[sym].fetching
       /\ Rerender(useRealData, instrument, timePeriod,
            [queries EXCEPT ![sym] =
               [data |-> [kind |-> "real", symbol |-> sym, period |-> timePeriod],
                error |-> Null, fetching |-> FALSE]])
  /\ viewBefore' = view
  /\ lastHandler' = "other"
  /\ UNCHANGED <<view, selectedDate, isPanelOpen, metricType, genVars, aggVars, patVars>>
  /\ OthersUnchanged("home")

\* fetchMarketData rejects (after the retries of the query)
fetchRejects ==
  /\ page = "ready"
  /\ \E sym \in Instruments :
       /\ queries[sym].fetching
       /\ Rerender(useRealData, instrument, timePeriod,
            [queries EXCEPT ![sym] =
               [data |-> queries[sym].data,
                error |-> [kind |-> "error", symbol |-> sym], fetching |-> FALSE]])
  /\ viewBefore' = view
  /\ lastHandler' = "other"
  /\ UNCHANGED <<view, selectedDate, isPanelOpen, metricType, genVars, aggVars, patVars>>
  /\ OthersUnchanged("home")

NextHome ==
  \/ clickZoomIn \/ clickZoomOut \/ onViewChange \/ handleDateSelect \/ onClose
  \/ handleReset \/ setInstrument \/ setMetricType \/ setTimePeriod \/ setUseRealData
  \/ fetchResolves \/ fetchRejects

SpecHome == InitHome /\ [][NextHome]_vars

Level(v) == CHOOSE i \in 1 .. Len(Views) : Views[i] = v

\* C25: a click on an enabled zoom button changes the view by exactly one
\* level of daily -> weekly -> monthly.
C25_ZoomMovesOneLevel ==
  lastHandler \in {"handleZoomIn", "handleZoomOut"} =>
    Level(view) - Level(viewBefore) \in {-1, 1}

\* C27: once the fetch of the selected query has had its outcome, the series
\* shown is the real series when real-data mode is on and the query has data
\* and no error, and otherwise a mock series generated for the selected date
\* range (which holds weekdays, so the series is not empty).
C27_AutomaticFallback ==
  LET q == queries[instrument]
  IN  ~q.fetching =>
        IF useRealData /\ q.data # Undefined /\ q.error = Null
        THEN homeMarketData = [kind |-> "real", symbol |-> instrument, period |-> timePeriod]
        ELSE homeMarketData # <<>>

(***************************************************************************)
(* ThemeProvider: the theme and colour-scheme state, the class list of the *)
(* document root, localStorage and the OS colour-scheme preference         *)
(* (matchMedia '(prefers-color-scheme: dark)').                            *)
(***************************************************************************)
Themes == {"light", "dark", "system"}
ColorSchemes == {"default", "colorblind", "high-contrast"}
ThemeClasses == {"light", "dark", "colorblind", "high-contrast"}

\* what localStorage.getItem gives for a key that holds text
Stored(text) == [kind |-> "string", value |-> text]

\* `shouldBeDark` of the effect of lines 44-77
shouldBeDark(t, os) ==
  IF t = "dark" THEN TRUE ELSE IF t = "system" THEN os ELSE FALSE

\* the class list of the root after the effect has removed the four theme
\* classes and added those of the theme and the colour scheme
AppliedClasses(classes, t, c, os) ==
  ((classes \ ThemeClasses)
     \cup {IF shouldBeDark(t, os) THEN "dark" ELSE "light"})
     \cup (IF c # "default" THEN {c} ELSE {})

\* the effect of lines 44-77 for theme t and colour scheme c
ApplyTheme(t, c) ==
  /\ isDark' = shouldBeDark(t, prefersDark)
  /\ rootClasses' = AppliedClasses(rootClasses, t, c, prefersDark)
  /\ storedTheme' = Stored(t)
  /\ storedColorScheme' = Stored(c)

\* themeEvent remembers the last event the provider has handled

\* before the provider mounts: any saved preferences, any OS preference
InitTheme ==
  /\ theme = "system"
  /\ colorScheme = "default"
  /\ isDark = FALSE
  /\ rootClasses = {}
  /\ prefersDark \in BOOLEAN
  /\ storedTheme \in {Stored(t) : t \in Themes} \cup {Null}
  /\ storedColorScheme \in {Stored(c) : c \in ColorSchemes} \cup {Null}
  /\ themeMounted = FALSE
  /\ themeEvent = "none"
  /\ GenIdle
  /\ AggIdle
  /\ PatIdle
  /\ OthersIdle("theme")

\* the mount effects: the saved preferences are loaded (lines 35-42) and the
\* theme effect runs for them
mountThemeProvider ==
  /\ ~themeMounted
  /\ themeMounted' = TRUE
  /\ themeEvent' = "mount"
  /\ theme' = IF storedTheme # Null THEN storedTheme.value ELSE theme
  /\ colorScheme' = IF storedColorScheme # Null THEN storedColorScheme.value ELSE colorScheme
  /\ ApplyTheme(theme', colorScheme')
  /\ UNCHANGED <<prefersDark, genVars, aggVars, patVars>>
  /\ OthersUnchanged("theme")

\* setTheme(t) from the theme toggle: the effect runs when the theme changed
selectTheme ==
  /\ themeMounted
  /\ \E t \in Themes :
       /\ theme' = t
       /\ IF t # theme
          THEN ApplyTheme(t, colorScheme)
          ELSE UNCHANGED <<isDark, rootClasses, storedTheme, storedColorScheme>>
  /\ themeEvent' = "setTheme"
  /\ UNCHANGED <<colorScheme, prefersDark, themeMounted, genVars, aggVars, patVars>>
  /\ OthersUnchanged("theme")

selectColorScheme ==
  /\ themeMounted
  /\ \E c \in ColorSchemes :
       /\ colorScheme' = c
       /\ IF c # colorScheme
          THEN ApplyTheme(theme, c)
          ELSE UNCHANGED <<isDark, rootClasses, storedTheme, storedColorScheme>>
  /\ themeEvent' = "setColorScheme"
  /\ UNCHANGED <<theme, prefersDark, themeMounted, genVars, aggVars, patVars>>
  /\ OthersUnchanged("theme")

\* the OS preference changes: the listener of lines 82-86 sets isDark when
\* the theme is 'system'; no dependency of the theme effect changes
handleChange ==
  /\ themeMounted
  /\ prefersDark' = ~prefersDark
  /\ isDark' = IF theme = "system" THEN prefersDark' ELSE isDark
  /\ themeEvent' = "handleChange"
  /\ UNCHANGED <<theme, colorScheme, rootClasses, storedTheme, storedColorScheme,
                 themeMounted, genVars, aggVars, patVars>>
  /\ OthersUnchanged("theme")

NextTheme == mountThemeProvider \/ selectTheme \/ selectColorScheme \/ handleChange

SpecTheme == InitTheme /\ [][NextTheme]_vars

\* C26: with theme 'system' the root carries class 'dark' exactly when isDark
\* is true and isDark is the OS preference, and exactly one of 'light' and
\* 'dark' is on the root.
C26_RootClassFollowsSystem ==
  (themeMounted /\ theme = "system") =>
    /\ ("dark" \in rootClasses) <=> isDark
    /\ isDark <=> prefersDark
    /\ ("dark" \in rootClasses) # ("light" \in rootClasses)

(***************************************************************************)
(* BinanceWebSocket (one instance) as useRealtimeOrderbook drives it.      *)
(* sockets[i] is the readyState of the i-th WebSocket the instance has     *)
(* created, ws the index of `this.ws` (0 for null), timers the number of   *)
(* reconnect timers that have not fired yet.                               *)
(***************************************************************************)
\* WebSocket objects one instance creates in a run
MaxSockets == 6

\* `new WebSocket(...)` of connect(): the new socket becomes this.ws
Connect ==
  /\ Len(sockets) < MaxSockets
  /\ sockets' = Append(sockets, "connecting")
  /\ ws' = Len(sockets) + 1

\* disconnected and reconnected remember that disconnect() has been called
\* and that connect() has run after it

\* the instance after its construction by the effect of the hook
InitWs ==
  /\ ws = 0
  /\ sockets = <<>>
  /\ timers = 0
  /\ isConnected = FALSE
  /\ wsError = Null
  /\ disconnected = FALSE
  /\ reconnected = FALSE
  /\ GenIdle
  /\ AggIdle
  /\ PatIdle
  /\ OthersIdle("ws")

\* the effect of the hook: websocket.connect(); setIsConnected(true)
effectConnect ==
  /\ sockets = <<>>
  /\ ~disconnected
  /\ Connect
  /\ isConnected' = TRUE
  /\ UNCHANGED <<timers, wsError, disconnected, reconnected, genVars, aggVars, patVars>>
  /\ OthersUnchanged("ws")

onopen ==
  /\ \E i \in 1 .. Len(sockets) :
       /\ sockets[i] = "connecting"
       /\ sockets' = [sockets EXCEPT ![i] = "open"]
  /\ UNCHANGED <<ws, timers, isConnected, wsError, disconnected, reconnected,
                 genVars, aggVars, patVars>>
  /\ OthersUnchanged("ws")

\* a message arrives: handleData clears the error when the message has bids
\* and asks
onmessage ==
  /\ \E i \in 1 .. Len(sockets), complete \in BOOLEAN :
       /\ sockets[i] = "open"
       /\ wsError' = IF complete THEN Null ELSE wsError
  /\ UNCHANGED <<ws, sockets, timers, isConnected, disconnected, reconnected,
                 genVars, aggVars, patVars>>
  /\ OthersUnchanged("ws")

\* the socket reports an error: handleError
onerror ==
  /\ \E i \in 1 .. Len(sockets) : sockets[i] \in {"connecting", "open"}
  /\ wsError' = [kind |-> "string", value |-> "WebSocket connection error"]
  /\ isConnected' = FALSE
  /\ UNCHANGED <<ws, sockets, timers, disconnected, reconnected, genVars, aggVars, patVars>>
  /\ OthersUnchanged("ws")

\* a socket closes, dropped by the network or closed by close(): its onclose
\* handler schedules connect() in 5 seconds
onclose ==
  /\ \E i \in 1 .. Len(sockets) :
       /\ sockets[i] \in {"connecting", "open", "closing"}
       /\ sockets' = [sockets EXCEPT ![i] = "closed"]
  /\ timers' = timers + 1
  /\ UNCHANGED <<ws, isConnected, wsError, disconnected, reconnected,
                 genVars, aggVars, patVars>>
  /\ OthersUnchanged("ws")

\* a reconnect timer fires: this.connect()
timerFires ==
  /\ timers > 0
  /\ timers' = timers - 1
  /\ Connect
  /\ reconnected' = (reconnected \/ disconnected)
  /\ UNCHANGED <<isConnected, wsError, disconnected, genVars, aggVars, patVars>>
  /\ OthersUnchanged("ws")

\* disconnect(), called by the cleanup of the hook or through the function
\* the hook returns, followed by setIsConnected(false)
disconnect ==
  /\ sockets # <<>>
  /\ IF ws # 0
     THEN /\ sockets' = [sockets EXCEPT ![ws] =
                           IF @ \in {"connecting", "open"} THEN "closing" ELSE @]
          /\ ws' = 0
     ELSE UNCHANGED <<ws, sockets>>
  /\ isConnected' = FALSE
  /\ disconnected' = TRUE
  /\ UNCHANGED <<timers, wsError, reconnected, genVars, aggVars, patVars>>
  /\ OthersUnchanged("ws")

NextWs ==
  effectConnect \/ onopen \/ onmessage \/ onerror \/ onclose \/ timerFires \/ disconnect

SpecWs == InitWs /\ [][NextWs]_vars

\* C29: once disconnect() has been called the instance opens no further
\* connection.
C29_NoConnectionAfterDisconnect ==
  disconnected => ~reconnected

(***************************************************************************)
(* The response interceptor of binanceApi, for one request.  requests      *)
(* counts the times the request has been issued, errors lists the errors   *)
(* of the failed attempts, configRetry is config.retry (0 while it is not  *)
(* set: lines 65-67 set it to 0), settled is what the caller's promise     *)
(* settles with.                                                           *)
(***************************************************************************)
\* the limit and the status of line 69
RetryLimit == 3
ServerErrorStatus == 500

\* the errors a request can fail with: an HTTP status, no response at all,
\* and an error that carries no config (thrown before a request is built)
Failures ==
  {[response |-> TRUE, status |-> st, config |-> TRUE] : st \in {404, 429, 500, 503}}
    \cup {[response |-> FALSE, status |-> 0, config |-> TRUE],
          [response |-> FALSE, status |-> 0, config |-> FALSE]}

\* error.response?.status >= 500
IsServerError(e) == e.response /\ e.status >= ServerErrorStatus

\* the TypeError of `config.retry = 0` when error.config is undefined
TypeError == [kind |-> "TypeError"]

InitApi ==
  /\ configRetry = 0
  /\ requests = 1
  /\ errors = <<>>
  /\ settled = Null
  /\ reqPc = "inflight"
  /\ GenIdle
  /\ AggIdle
  /\ PatIdle
  /\ OthersIdle("api")

\* the request succeeds: the first handler passes the response through
onFulfilled ==
  /\ reqPc = "inflight"
  /\ settled' = [kind |-> "fulfilled"]
  /\ reqPc' = "settled"
  /\ UNCHANGED <<configRetry, requests, errors, genVars, aggVars, patVars>>
  /\ OthersUnchanged("api")

\* the request fails with error e: the second handler up to its await or
\* its return
onRejected ==
  /\ reqPc = "inflight"
  /\ \E e \in Failures :
       /\ errors' = Append(errors, e)
       /\ IF ~e.config
          THEN /\ settled' = [kind |-> "rejected", error |-> TypeError]
               /\ reqPc' = "settled"
               /\ UNCHANGED configRetry
          ELSE IF configRetry < RetryLimit /\ IsServerError(e)
          THEN /\ configRetry' = configRetry + 1
               /\ reqPc' = "waiting"
               /\ UNCHANGED settled
          ELSE /\ settled' = [kind |-> "rejected", error |-> e]
               /\ reqPc' = "settled"
               /\ UNCHANGED configRetry
  /\ UNCHANGED <<requests, genVars, aggVars, patVars>>
  /\ OthersUnchanged("api")

\* the delay of line 71 is over: binanceApi(config) issues the request again
retryRequest ==
  /\ reqPc = "waiting"
  /\ requests' = requests + 1
  /\ reqPc' = "inflight"
  /\ UNCHANGED <<configRetry, errors, settled, genVars, aggVars, patVars>>
  /\ OthersUnchanged("api")

NextApi == onFulfilled \/ onRejected \/ retryRequest

SpecApi == InitApi /\ [][NextApi]_vars

\* C28: the request is issued again at most 3 times and only after a failure
\* with status >= 500; a failure with a lower status or without a response
\* ends the request; and a rejection carries the error of the last attempt,
\* never another error.
C28_RetryOnlyServerErrors ==
  /\ requests <= 1 + RetryLimit
  /\ \A i \in 1 .. Len(errors) :
       (i < Len(errors) \/ reqPc # "settled") => IsServerError(errors[i])
  /\ (reqPc = "settled" /\ settled.kind = "rejected") =>
       settled.error = errors[Len(errors)]

(***************************************************************************)
(* enhanced-export.ts: the export handlers of the page working on the      *)
(* shared marketData array.  exportSeries is that array, givenSeries the   *)
(* series as the page first held it, download what the last export wrote.  *)
(***************************************************************************)
\* longest shared series, and number of exports followed
MaxExportLen == 3
MaxExports == 2

\* data.sort((a, b) => b.priceChange - a.priceChange): in place, stable
SortByPriceChangeDescending(d) ==
  ItemsSortedBy([i \in 1 .. Len(d) |->
     [key |-> [num |-> d[i].priceChange, den |-> 1], item |-> d[i]]])

\* data.sort((a, b) => a.priceChange - b.priceChange)
SortByPriceChangeAscending(d) ==
  ItemsSortedBy([i \in 1 .. Len(d) |->
     [key |-> [num |-> 0 - d[i].priceChange, den |-> 1], item |-> d[i]]])

\* data.sort((a, b) => b.volume - a.volume)
SortByVolumeDescending(d) ==
  ItemsSortedBy([i \in 1 .. Len(d) |->
     [key |-> [num |-> d[i].volume, den |-> 1], item |-> d[i]]])

DatesIn(d) == [i \in 1 .. Len(d) |-> d[i].date]

\* generateAnalysisReport: the three rankings of the report, and the array
\* as the three sorts leave it
generateAnalysisReport(d) ==
  LET top == SortByPriceChangeDescending(d)
      worst == SortByPriceChangeAscending(top)
      volume == SortByVolumeDescending(worst)
  IN  [report |-> [kind |-> "report",
                   totalDays |-> Len(d),
                   topPerforming |-> DatesIn(Slice(top, 5)),
                   worstPerforming |-> DatesIn(Slice(worst, 5)),
                   highestVolume |-> DatesIn(Slice(volume, 5))],
       data |-> volume]

\* data[0]?.date and data[data.length - 1]?.date
DateAt(d, i) == IF i \in 1 .. Len(d) THEN [kind |-> "date", value |-> d[i].date] ELSE Undefined

\* the series the page can hold: weekdays from 2025-02-03 in ascending date
\* order
ExportSeries ==
  UNION {[1 .. n -> {-20, 0, 30} \X {100, 200}] : n \in 0 .. MaxExportLen}

AsMarketData(choice) ==
  [i \in 1 .. Len(choice) |->
     [date |-> Format(FirstDay + i - 1),
      volatilityLevel |-> "low",
      volume |-> choice[i][2],
      performance |-> "neutral",
      priceChange |-> choice[i][1],
      liquidity |-> 50]]

InitExport ==
  /\ \E choice \in ExportSeries : exportSeries = AsMarketData(choice)
  /\ givenSeries = exportSeries
  /\ download = Null
  /\ exports = 0
  /\ GenIdle
  /\ AggIdle
  /\ PatIdle
  /\ OthersIdle("export")

\* handleExportReport: exportAnalysisReport(marketData, ...)
handleExportReport ==
  /\ exports < MaxExports
  /\ exports' = exports + 1
  /\ exportSeries' = generateAnalysisReport(exportSeries).data
  /\ download' = generateAnalysisReport(exportSeries).report
  /\ UNCHANGED <<givenSeries, genVars, aggVars, patVars>>
  /\ OthersUnchanged("export")

\* handleExportJSON: exportJSONData(marketData, ...)
handleExportJSON ==
  /\ exports < MaxExports
  /\ exports' = exports + 1
  /\ download' = [kind |-> "json",
                  totalRecords |-> Len(exportSeries),
                  start |-> DateAt(exportSeries, 1),
                  end |-> DateAt(exportSeries, Len(exportSeries)),
                  data |-> exportSeries]
  /\ UNCHANGED <<exportSeries, givenSeries, genVars, aggVars, patVars>>
  /\ OthersUnchanged("export")

\* handleExportCSV: exportEnhancedCSV(marketData, ...), one row per record in
\* the order of the array
handleExportCSV ==
  /\ exports < MaxExports
  /\ exports' = exports + 1
  /\ download' = [kind |-> "csv", rows |-> DatesIn(exportSeries)]
  /\ UNCHANGED <<exportSeries, givenSeries, genVars, aggVars, patVars>>
  /\ OthersUnchanged("export")

NextExport == handleExportReport \/ handleExportJSON \/ handleExportCSV

SpecExport == InitExport /\ [][NextExport]_vars

\* C30: after any sequence of exports the shared series has the order and
\* the contents it was given with, and so is still in ascending date order.
C30_ExportLeavesSeriesUnchanged ==
  /\ exportSeries = givenSeries
  /\ \A i \in 2 .. Len(exportSeries) :
       Parse(exportSeries[i - 1].date) < Parse(exportSeries[i].date)

====
